---- MODULE Spec2Model ----
(***************************************************************************)
(* Model of the Pinduoduo click-and-scrape session of                      *)
(* server/prismaClient.js: the traversal loop with its browser event       *)
(* handlers, credential rotation, the per-product scrape-and-save visit    *)
(* with the duplicate checks, and the batch/single text translation with   *)
(* its model fallback tiers.                                               *)
(***************************************************************************)
EXTENDS Integers, Sequences, FiniteSets, TLC

VARIABLES
    pc,                    \* position of the main async function in the loop
    isRunning,             \* global shutdown flag (SIGINT clears it)
    hasPageError,          \* global block flag
    flagAtIterStart,       \* history: hasPageError as read at the top of the iteration
    pageUrl,               \* page.url()
    visitUrl,              \* the url argument of the scrapeProduct call in progress
    pData,                 \* result of scrapeProduct ("null" or a record)
    visitLog,              \* collaborator calls issued for the visit in progress
    db,                    \* purchaseUrl of every Product row, in creation order
    batchQueue,            \* click order left for this screen
    quadrantIdx,           \* region taken from the queue for this iteration
    productIndex,
    productsScrapedCount,
    consecutiveFailures,
    attempts,              \* goBack attempts of the back navigation
    rateLimitHits,
    rateLimitBackoffMs,
    currentCookieFile,     \* 0 stands for null
    browserCookies,        \* profiles whose cookies the browser context holds
    browserClosed,
    layoutMode,            \* "vertical-4" or "grid-2x2" (command line)
    accessBlocked,         \* history: a prisma call has failed with an allow_list error
    productImages,         \* the ProductImage rows: product address and type
    restLog,               \* history: productsScrapedCount at each rest pause
    refills,               \* history: the click orders generated and the
                           \* one-screen scrolls made before a refill
    pageErrorPending,      \* history: page.on('pageerror') has set the flag
                           \* and no loop-top check has since started a
                           \* rotation
    embeddingRequests,     \* history: the rows generateEmbedding was called for
    basicData,             \* <<basicData>> of the scrapeProduct call in progress
                           \* (<<>> before the page has been evaluated)
    texts,                 \* the texts argument of the translation call
    context,               \* its context argument
    tEntry,                \* the function called: "batchTranslate" or "translateText"
    tpc,                   \* position of the translation call
    tTier,                 \* the model in use: "target" or "backup"
    tAttempt,              \* the loop index i of tryBatch / tryTranslate
    tItem,                 \* the item of the per-item fallback being translated
    tResult,               \* the list the call resolves to
    tPath,                 \* the return statement that produced tResult
    tRequests,             \* history: the requests sent to the remote service
    tUsed,                 \* history: tier, kind and length of the list tryBatch
                           \* returned that tResult was assembled from
    tAllFailed,            \* history: every remote call so far has thrown
    tReturned,             \* history: the tiers whose tryBatch returned a result list
    mainPagePrice,         \* basicData.mainPagePrice, in hundredths of a yuan
    optionPrices,          \* the price of each translated option, in IQD
    general_price,         \* finalData.general_price / productData.general_price
    price,                 \* Product.price of the created row
    basePriceIQD,          \* Product.basePriceIQD of the created row
    ppc,                   \* position of the pricing of the product
    aiPc,                  \* position of scrapeProduct in its AI processing
    product_name,          \* basicData.product_name
    aiTasks,               \* state of the promise of each of the four tasks
    aiSettled,             \* history: the tasks in the order they settled
    translatedName,        \* <<>> until nameTask has resolved, then <<its value>>
    aiMetadataArg,         \* <<>> until generateAiMetadata is called, then
                           \* <<its first argument>>
    poolSize,              \* number of *.json files in the cookies directory
    cookieWrites,          \* history: the files saveCookies has written
    addImageLog,           \* history: the src values handed to addImage
    seenImages,            \* the Set seenImages of the page evaluation
    main_images,           \* the array main_images of the page evaluation
    imageStrategy,         \* the image strategy the page evaluation is at
    imageStrategies,       \* history: the strategies that appended to main_images
    optionItems,           \* history: the list items the option extraction has read
    generated_options,     \* the array options of the option extraction
    gotoPc,                \* position of the safeGoto call
    gotoAttempt,           \* the loop variable i of safeGoto
    gotoLog,               \* history: the navigations and delays of the call
    gotoResult             \* <<>> until the call ends, then <<what it returned
                           \* or threw>>

loopVars == <<pc, isRunning, hasPageError, flagAtIterStart, pageUrl, visitUrl,
              pData, visitLog, db, batchQueue, quadrantIdx, productIndex,
              productsScrapedCount, consecutiveFailures, attempts,
              rateLimitHits, rateLimitBackoffMs, currentCookieFile,
              browserCookies, browserClosed, layoutMode, accessBlocked,
              basicData, productImages, restLog, refills, pageErrorPending,
              embeddingRequests>>

transVars == <<texts, context, tEntry, tpc, tTier, tAttempt, tItem, tResult,
               tPath, tRequests, tUsed, tAllFailed, tReturned>>

priceVars == <<mainPagePrice, optionPrices, general_price, price,
               basePriceIQD, ppc>>

aiVars == <<aiPc, product_name, aiTasks, aiSettled, translatedName,
            aiMetadataArg>>

cookieVars == <<poolSize, cookieWrites>>

imageVars == <<addImageLog, seenImages, main_images, imageStrategy,
               imageStrategies>>

optionVars == <<optionItems, generated_options>>

gotoVars == <<gotoPc, gotoAttempt, gotoLog, gotoResult>>

sideVars == <<aiVars, cookieVars, imageVars, optionVars, gotoVars>>

vars == <<loopVars, transVars, priceVars, sideVars>>

----------------------------------------------------------------------------
(* Bounds of the model *)

MaxIterations == 2        \* iterations of the traversal loop that reach productIndex++
MaxRateLimitHits == 3     \* 429 responses observed
MaxCookieFiles == 1       \* *.json files in the cookies directory
MaxVisits == 3            \* iterations of the session of product visits
MaxMisses == 2            \* iterations beyond PRODUCT_LIMIT in the long session
MaxTexts == 2             \* items in the list given to batchTranslate
MaxMainPagePrice == 1000  \* highest main-page price, in hundredths of a yuan
MaxPoolFiles == 2         \* *.json files in the cookies directory of the cookie session
MaxRestIterations == 16   \* iterations of the session with rest pauses
MaxScreenIterations == 5  \* iterations of the session of screens
MaxImages == 3            \* src values handed to addImage on one page
MaxOptionItems == 3       \* list items of the variant selector

(* Program constants *)

OptionLimit == 30         \* generated_options.slice(0, 30)
Retries == 2              \* the default of safeGoto's parameter retries

PRODUCT_LIMIT == 45
maxAttempts == 2
MaxConsecutiveFailures == 5
InitialBackoffMs == 60000
MaxBackoffMs == 300000

----------------------------------------------------------------------------
(* Addresses.  An address is its path, the value of its goods_id query     *)
(* parameter (a digit sequence, <<>> when the parameter is absent) and the *)
(* rest of the query string (referrer noise).                              *)

HomePath == "/"
CategoryPath == "/catgoods.html"
GoodsPath == "/goods.html"
CommentsPath == "/goods_comments.html"
VerificationPath == "/psnl_verification.html"

\* The substrings tested by the code that each path contains.
PathKeywords(path) ==
    CASE path = HomePath -> {}
      [] path = CategoryPath -> {"catgoods", "goods.html"}
      [] path = GoodsPath -> {"goods.html", "/goods"}
      [] path = CommentsPath -> {"comment", "/goods"}
      [] path = VerificationPath -> {"verification"}

Url(path, goodsId, ref) == [path |-> path, goodsId |-> goodsId, ref |-> ref]

\* String.prototype.includes on the address text
UrlIncludes(u, kw) ==
    \/ kw \in PathKeywords(u.path)
    \/ kw = "goods_id" /\ u.goodsId # <<>>

CATEGORY_URL == Url(HomePath, <<>>, "")
VerificationUrl == Url(VerificationPath, <<>>, "")

getGoodsIdFromUrl(u) == u.goodsId

isProductUrl(u) ==
    /\ getGoodsIdFromUrl(u) # <<>>
    /\ \/ UrlIncludes(u, "goods.html")
       \/ UrlIncludes(u, "goods_detail")
       \/ UrlIncludes(u, "/goods")

IsBlockAddress(u) ==
    \/ UrlIncludes(u, "verification")
    \/ UrlIncludes(u, "punish")
    \/ UrlIncludes(u, "captcha")

\* condition of the back navigation: on a product or review page, not a category
NeedsBack(u) ==
    LET isProduct == isProductUrl(u)
        isReview == \/ UrlIncludes(u, "comment")
                    \/ UrlIncludes(u, "reviews")
                    \/ UrlIncludes(u, "subject_review")
        isCategory == /\ \/ UrlIncludes(u, "catgoods")
                         \/ UrlIncludes(u, "search_result")
                         \/ UrlIncludes(u, "classification")
                      /\ ~UrlIncludes(u, "goods_id")
    IN (isProduct \/ isReview) /\ ~isCategory

IsPrefix(s, t) == Len(s) <= Len(t) /\ SubSeq(t, 1, Len(s)) = s

\* Prisma `contains: "goods_id=<g>"` on a stored address: the text
\* "goods_id=" followed by the digits of g occurs in it.
StoredUrlContainsGoodsId(stored, g) ==
    stored.goodsId # <<>> /\ IsPrefix(g, stored.goodsId)

----------------------------------------------------------------------------
(* Browser event handlers registered on the page, and the SIGINT handler.  *)
(* Node runs a handler to completion between two awaited steps of the loop.*)

\* page.on('framenavigated') for a main-frame navigation to u
FrameNavigated(flag, u) == flag \/ IsBlockAddress(u)

\* the page commits a main-frame navigation to u
Navigate(u) ==
    /\ pageUrl' = u
    /\ hasPageError' = FrameNavigated(hasPageError, u)

\* page.on('pageerror'): the error text mentions 424 or 403, or not
OnPageError(mentionsBlock) ==
    /\ pc # "done"
    /\ UNCHANGED <<transVars, priceVars, sideVars>>
    /\ pageErrorPending' = (pageErrorPending \/ mentionsBlock)
    /\ UNCHANGED embeddingRequests
    /\ UNCHANGED <<accessBlocked, basicData, productImages, restLog, refills>>
    /\ hasPageError' = (hasPageError \/ mentionsBlock)
    /\ UNCHANGED <<pc, isRunning, flagAtIterStart, pageUrl, visitUrl, pData,
                   visitLog, db, batchQueue, quadrantIdx, productIndex,
                   productsScrapedCount, consecutiveFailures, attempts,
                   rateLimitHits, rateLimitBackoffMs, currentCookieFile,
                   browserCookies, browserClosed, layoutMode>>

Min(a, b) == IF a <= b THEN a ELSE b

\* mutant: the doubled duration is not capped
NextBackoffMs_NoCap(ms) == IF ms > 0 THEN ms * 2 ELSE InitialBackoffMs

\* the new backoff duration computed on a 429 response
NextBackoffMs(ms) ==
    Min(IF ms > 0 THEN ms * 2 ELSE InitialBackoffMs, MaxBackoffMs)

\* page.on('response') for a response with the given HTTP status
OnResponse(status, cap) ==
    /\ pc # "done"
    /\ UNCHANGED <<transVars, priceVars, sideVars>>
    /\ UNCHANGED <<pageErrorPending, embeddingRequests>>
    /\ UNCHANGED <<accessBlocked, basicData, productImages, restLog, refills>>
    /\ IF status = 429
       THEN /\ rateLimitHits < cap
            /\ rateLimitHits' = rateLimitHits + 1
            /\ rateLimitBackoffMs' = NextBackoffMs(rateLimitBackoffMs)
       ELSE UNCHANGED <<rateLimitHits, rateLimitBackoffMs>>
    /\ UNCHANGED <<pc, isRunning, hasPageError, flagAtIterStart, pageUrl,
                   visitUrl, pData, visitLog, db, batchQueue, quadrantIdx,
                   productIndex, productsScrapedCount, consecutiveFailures,
                   attempts, currentCookieFile, browserCookies, browserClosed,
                   layoutMode>>

\* process.on('SIGINT')
Sigint ==
    /\ pc # "done"
    /\ UNCHANGED <<transVars, priceVars, sideVars>>
    /\ UNCHANGED <<pageErrorPending, embeddingRequests>>
    /\ UNCHANGED <<accessBlocked, basicData, productImages, restLog, refills>>
    /\ isRunning' = FALSE
    /\ UNCHANGED <<pc, hasPageError, flagAtIterStart, pageUrl, visitUrl, pData,
                   visitLog, db, batchQueue, quadrantIdx, productIndex,
                   productsScrapedCount, consecutiveFailures, attempts,
                   rateLimitHits, rateLimitBackoffMs, currentCookieFile,
                   browserCookies, browserClosed, layoutMode>>

----------------------------------------------------------------------------
(* Credential rotation *)

\* getRandomCookieFile: any of the n files of the directory, null (0) when
\* it is empty
RandomCookieFiles(n) == IF n = 0 THEN {0} ELSE 1..n

\* loadCookies: clear the context (a failure is only logged), pick a file,
\* install its cookies (a failure is only logged)
LoadCookies(clearOk, file, setOk) ==
    /\ currentCookieFile' = file
    /\ browserCookies' =
          LET kept == IF clearOk THEN {} ELSE browserCookies
          IN IF file # 0 /\ setOk THEN kept \cup {file} ELSE kept

CookiesIdle ==
    /\ poolSize = MaxCookieFiles
    /\ cookieWrites = {}

\* `await loadCookies(page)` for the initial session, before the login delay
InitialLoad(clearOk, file, setOk) ==
    /\ pc = "start_load"
    /\ UNCHANGED <<transVars, priceVars, sideVars>>
    /\ UNCHANGED <<pageErrorPending, embeddingRequests>>
    /\ UNCHANGED <<accessBlocked, basicData, productImages, restLog, refills>>
    /\ LoadCookies(clearOk, file, setOk)
    /\ pc' = "start_save"
    /\ UNCHANGED <<isRunning, hasPageError, flagAtIterStart, pageUrl, visitUrl,
                   pData, visitLog, db, batchQueue, quadrantIdx, productIndex,
                   productsScrapedCount, consecutiveFailures, attempts,
                   rateLimitHits, rateLimitBackoffMs, browserClosed, layoutMode>>

\* mutant: the cookies are written to a fixed file of the directory
SaveTarget_FirstFile(current) == 1

\* the path saveCookies writes to
SaveTarget(current) == current

\* `await saveCookies(page)` after the initial load; reading the cookies
\* may fail (ok = FALSE), which is only logged.  Then the loop is entered.
InitialSave(ok) ==
    /\ pc = "start_save"
    /\ UNCHANGED <<transVars, priceVars, aiVars, imageVars, optionVars,
                   gotoVars>>
    /\ UNCHANGED <<pageErrorPending, embeddingRequests>>
    /\ UNCHANGED <<accessBlocked, basicData, productImages, restLog, refills>>
    /\ cookieWrites' = IF currentCookieFile # 0 /\ ok
                       THEN cookieWrites \cup {SaveTarget(currentCookieFile)}
                       ELSE cookieWrites
    /\ UNCHANGED poolSize
    /\ pc' = "loop"
    /\ UNCHANGED <<isRunning, hasPageError, flagAtIterStart, pageUrl, visitUrl,
                   pData, visitLog, db, batchQueue, quadrantIdx, productIndex,
                   productsScrapedCount, consecutiveFailures, attempts,
                   rateLimitHits, rateLimitBackoffMs, currentCookieFile,
                   browserCookies, browserClosed, layoutMode>>

----------------------------------------------------------------------------
(* The traversal loop: `while (isRunning) { try { ... } catch ... }` *)

\* mutant: the block flag is not looked at before going on
IterationBranch_IgnoresFlag(flag, u) ==
    IF isProductUrl(u) THEN "stuck_back" ELSE "refill"

\* mutant: the address is not looked at before going on
IterationBranch_IgnoresAddress(flag, u) ==
    IF flag THEN "rotate_load" ELSE "refill"

\* the two checks at the top of the try block
IterationBranch(flag, u) ==
    IF flag THEN "rotate_load"
    ELSE IF isProductUrl(u) THEN "stuck_back"
    ELSE "refill"

\* mutant: an error thrown inside the iteration is not caught and ends the loop
IterationCatch_Uncaught == "closing"

\* where an error thrown inside the try block of the iteration lands:
\* `catch (e)` of the loop body
IterationCatch == "catch"

\* mutant: the loop condition is not tested
WhileCondition_Always(running) == TRUE

\* `while (isRunning)`
WhileCondition(running) == running

\* while condition, then the top of the try block
LoopCheck ==
    /\ pc = "loop"
    /\ UNCHANGED <<transVars, priceVars, sideVars>>
    /\ pageErrorPending' =
          (pageErrorPending /\ ~(WhileCondition(isRunning) /\ hasPageError))
    /\ UNCHANGED embeddingRequests
    /\ UNCHANGED <<accessBlocked, basicData, productImages, restLog, refills>>
    /\ IF ~WhileCondition(isRunning)
       THEN pc' = "closing" /\ UNCHANGED flagAtIterStart
       ELSE /\ flagAtIterStart' = hasPageError
            /\ pc' = IterationBranch(hasPageError, pageUrl)
    /\ UNCHANGED <<isRunning, hasPageError, pageUrl, visitUrl, pData, visitLog,
                   db, batchQueue, quadrantIdx, productIndex,
                   productsScrapedCount, consecutiveFailures, attempts,
                   rateLimitHits, rateLimitBackoffMs, currentCookieFile,
                   browserCookies, browserClosed, layoutMode>>

\* rotateCookies, first half: await loadCookies(page)
RotateLoad(clearOk, file, setOk) ==
    /\ pc = "rotate_load"
    /\ UNCHANGED <<transVars, priceVars, sideVars>>
    /\ UNCHANGED <<pageErrorPending, embeddingRequests>>
    /\ UNCHANGED <<accessBlocked, basicData, productImages, restLog, refills>>
    /\ LoadCookies(clearOk, file, setOk)
    /\ pc' = "rotate_nav"
    /\ UNCHANGED <<isRunning, hasPageError, flagAtIterStart, pageUrl, visitUrl,
                   pData, visitLog, db, batchQueue, quadrantIdx, productIndex,
                   productsScrapedCount, consecutiveFailures, attempts,
                   rateLimitHits, rateLimitBackoffMs, browserClosed, layoutMode>>

\* rotateCookies, second half: reset the flag, send the page to CATEGORY_URL
\* (the site answers with dest), wait, `continue`
RotateNav(dest, throws) ==
    /\ pc = "rotate_nav"
    /\ UNCHANGED <<transVars, priceVars, sideVars>>
    /\ UNCHANGED <<pageErrorPending, embeddingRequests>>
    /\ UNCHANGED <<accessBlocked, basicData, productImages, restLog, refills>>
    /\ IF throws
       THEN /\ hasPageError' = FALSE
            /\ pc' = IterationCatch
            /\ UNCHANGED pageUrl
       ELSE /\ pageUrl' = dest
            /\ hasPageError' = FrameNavigated(FALSE, dest)
            /\ pc' = "loop"
    /\ UNCHANGED <<isRunning, flagAtIterStart, visitUrl, pData, visitLog, db,
                   batchQueue, quadrantIdx, productIndex, productsScrapedCount,
                   consecutiveFailures, attempts, rateLimitHits,
                   rateLimitBackoffMs, currentCookieFile, browserCookies,
                   browserClosed, layoutMode>>

\* "Unexpectedly on Product Page": goBack, wait, `continue`
StuckBack(dest, throws) ==
    /\ pc = "stuck_back"
    /\ UNCHANGED <<transVars, priceVars, sideVars>>
    /\ UNCHANGED <<pageErrorPending, embeddingRequests>>
    /\ UNCHANGED <<accessBlocked, basicData, productImages, restLog, refills>>
    /\ IF throws
       THEN pc' = IterationCatch /\ UNCHANGED <<pageUrl, hasPageError>>
       ELSE Navigate(dest) /\ pc' = "loop"
    /\ UNCHANGED <<isRunning, flagAtIterStart, visitUrl, pData, visitLog, db,
                   batchQueue, quadrantIdx, productIndex, productsScrapedCount,
                   consecutiveFailures, attempts, rateLimitHits,
                   rateLimitBackoffMs, currentCookieFile, browserCookies,
                   browserClosed, layoutMode>>

RECURSIVE Perms(_)
\* every order the Fisher-Yates shuffle can produce of the members of S
Perms(S) ==
    IF S = {} THEN {<<>>}
    ELSE UNION {{<<x>> \o p : p \in Perms(S \ {x})} : x \in S}

\* mutant: the order is shuffled in either mode
ClickOrders_AlwaysShuffled(mode) == Perms({0, 1, 2, 3})

\* the click orders of one screen: fixed in vertical mode, shuffled in grid mode
ClickOrders(mode) ==
    IF mode = "vertical-4" THEN {<<0, 1, 2, 3>>} ELSE Perms({0, 1, 2, 3})

\* `Math.floor(Math.random() * 10) + 15`
RestBand == 15..24

\* `productIndex > 0 && productIndex % n === 0`, n being drawn for this test
RestDue(index, n) == index > 0 /\ index % n = 0

\* a draw with which the rest is not taken at this index
NoRestDraw(index) == CHOOSE n \in RestBand : ~RestDue(index, n)

\* refill the queue when it is empty (scrolling one screen first unless this
\* is the first batch), take the rest pause when the draw n divides
\* productIndex, then take the next region from the queue
Refill(order, throws, n) ==
    /\ pc = "refill"
    /\ UNCHANGED <<transVars, priceVars, sideVars>>
    /\ UNCHANGED <<pageErrorPending, embeddingRequests>>
    /\ UNCHANGED <<accessBlocked, basicData, productImages>>
    /\ order \in ClickOrders(layoutMode)
    /\ n \in RestBand
    /\ IF throws
       THEN \* the scroll before a refill is the only step here that can fail
            /\ batchQueue = <<>> /\ productIndex > 0
            /\ pc' = IterationCatch
            /\ UNCHANGED <<batchQueue, quadrantIdx, restLog, refills>>
       ELSE LET queue == IF batchQueue = <<>> THEN order ELSE batchQueue
                scrolled == IF productIndex > 0 THEN 1 ELSE 0
            IN /\ refills' =
                      IF batchQueue = <<>>
                      THEN [orders |-> refills.orders + 1,
                            scrolls |-> refills.scrolls + scrolled]
                      ELSE refills
               /\ restLog' = IF RestDue(productIndex, n)
                             THEN Append(restLog, productsScrapedCount)
                             ELSE restLog
               /\ quadrantIdx' = Head(queue)
               /\ batchQueue' = Tail(queue)
               /\ pc' = "click"
    /\ UNCHANGED <<isRunning, hasPageError, flagAtIterStart, pageUrl, visitUrl,
                   pData, visitLog, db, productIndex, productsScrapedCount,
                   consecutiveFailures, attempts, rateLimitHits,
                   rateLimitBackoffMs, currentCookieFile, browserCookies,
                   browserClosed, layoutMode>>

\* compute the target of region quadrantIdx, click it and wait; the page
\* stays where it is (landed = FALSE) or navigates to dest
Click(landed, dest, throws) ==
    /\ pc = "click"
    /\ UNCHANGED <<transVars, priceVars, sideVars>>
    /\ UNCHANGED <<pageErrorPending, embeddingRequests>>
    /\ UNCHANGED <<accessBlocked, basicData, productImages, restLog, refills>>
    /\ IF throws
       THEN pc' = IterationCatch /\ UNCHANGED <<pageUrl, hasPageError>>
       ELSE /\ pc' = "classify"
            /\ IF landed THEN Navigate(dest)
               ELSE UNCHANGED <<pageUrl, hasPageError>>
    /\ UNCHANGED <<isRunning, flagAtIterStart, visitUrl, pData, visitLog, db,
                   batchQueue, quadrantIdx, productIndex, productsScrapedCount,
                   consecutiveFailures, attempts, rateLimitHits,
                   rateLimitBackoffMs, currentCookieFile, browserCookies,
                   browserClosed, layoutMode>>

\* "Check if entered product page": by address, else by content
Classify(isProductContent) ==
    /\ pc = "classify"
    /\ UNCHANGED <<transVars, priceVars, sideVars>>
    /\ UNCHANGED <<pageErrorPending, embeddingRequests>>
    /\ UNCHANGED <<accessBlocked, basicData, productImages, restLog, refills>>
    /\ IF isProductUrl(pageUrl) \/ isProductContent
       THEN /\ pc' = "scrape"
            /\ visitUrl' = pageUrl
            /\ visitLog' = {}
            /\ pData' = "null"
       ELSE /\ pc' = "tail"
            /\ UNCHANGED <<visitUrl, visitLog, pData>>
    /\ UNCHANGED <<isRunning, hasPageError, flagAtIterStart, pageUrl, db,
                   batchQueue, quadrantIdx, productIndex, productsScrapedCount,
                   consecutiveFailures, attempts, rateLimitHits,
                   rateLimitBackoffMs, currentCookieFile, browserCookies,
                   browserClosed, layoutMode>>

----------------------------------------------------------------------------
(* One visit: scrapeProduct(page, currentUrl), then saveProductToDb(pData) *)

\* prisma.product.findFirst({ where: { purchaseUrl: { contains: "goods_id=<g>" } } })
FindFirstContainsGoodsId(rows, g) ==
    \E i \in 1..Len(rows) : StoredUrlContainsGoodsId(rows[i], g)

\* prisma.product.findFirst({ where: { purchaseUrl: url } })
FindFirstByUrl(rows, url) == \E i \in 1..Len(rows) : rows[i] = url

DbOutcomes == {"answer", "error", "allow_list"}

\* scrapeProduct: the duplicate check before the heavy scraping
ScrapeDuplicateCheck(outcome) ==
    /\ pc = "scrape"
    /\ UNCHANGED <<transVars, priceVars, sideVars>>
    /\ UNCHANGED <<pageErrorPending, embeddingRequests>>
    /\ accessBlocked' = (accessBlocked \/ (outcome = "allow_list"
                                            /\ getGoodsIdFromUrl(visitUrl) # <<>>))
    /\ UNCHANGED <<basicData, productImages, restLog, refills>>
    /\ outcome \in DbOutcomes
    /\ LET g == getGoodsIdFromUrl(visitUrl)
       IN IF g = <<>>
          THEN pc' = "extract" /\ UNCHANGED visitLog     \* no lookup is made
          ELSE CASE outcome = "answer" ->
                      /\ pc' = IF FindFirstContainsGoodsId(db, g)
                               THEN "count"               \* return null
                               ELSE "extract"
                      /\ UNCHANGED visitLog
                 [] outcome = "error" ->                  \* "Proceeding with scrape anyway"
                      /\ pc' = "extract"
                      /\ visitLog' = visitLog \cup {"lookup_error"}
                 [] outcome = "allow_list" ->             \* throw dbErr
                      /\ pc' = IterationCatch
                      /\ visitLog' = visitLog \cup {"lookup_error"}
    /\ UNCHANGED <<isRunning, hasPageError, flagAtIterStart, pageUrl, visitUrl,
                   pData, db, batchQueue, quadrantIdx, productIndex,
                   productsScrapedCount, consecutiveFailures, attempts,
                   rateLimitHits, rateLimitBackoffMs, currentCookieFile,
                   browserCookies, browserClosed, layoutMode>>

\* the address of the reviews page of a product address
ReviewsUrl(u) == Url(CommentsPath, u.goodsId, u.ref)

\* scrapeProduct: the interactions with the page (fields, variant selector,
\* reviews tab and back, description images); any error is caught and makes
\* scrapeProduct return null.  The page ends on dest; name is the trimmed
\* text of the name element (<<>> when neither selector finds one).
ScrapeExtract(ok, dest, name) ==
    /\ pc = "extract"
    /\ UNCHANGED <<transVars, priceVars, sideVars>>
    /\ UNCHANGED <<pageErrorPending, embeddingRequests>>
    /\ UNCHANGED <<accessBlocked, productImages, restLog, refills>>
    /\ basicData' = IF ok THEN <<[product_name |-> name]>> ELSE <<>>
    /\ dest \in {pageUrl, ReviewsUrl(pageUrl), VerificationUrl}
    /\ visitLog' = visitLog \cup {"extract"}
    /\ IF dest = pageUrl THEN UNCHANGED <<pageUrl, hasPageError>>
       ELSE Navigate(dest)
    /\ pc' = IF ok THEN "translate" ELSE "count"
    /\ UNCHANGED <<isRunning, flagAtIterStart, visitUrl, pData, db, batchQueue,
                   quadrantIdx, productIndex, productsScrapedCount,
                   consecutiveFailures, attempts, rateLimitHits,
                   rateLimitBackoffMs, currentCookieFile, browserCookies,
                   browserClosed, layoutMode>>

\* scrapeProduct: the remote translation and metadata requests, then the
\* construction of the result; an error is caught and makes it return null
ScrapeTranslate(ok) ==
    /\ pc = "translate"
    /\ UNCHANGED <<transVars, priceVars, sideVars>>
    /\ UNCHANGED <<pageErrorPending, embeddingRequests>>
    /\ UNCHANGED <<accessBlocked, basicData, productImages, restLog, refills>>
    /\ visitLog' = visitLog \cup {"translate"}
    /\ IF ok
       THEN pData' = [url |-> visitUrl] /\ pc' = "save_lookup"
       ELSE pData' = "null" /\ pc' = "count"
    /\ UNCHANGED <<isRunning, hasPageError, flagAtIterStart, pageUrl, visitUrl,
                   db, batchQueue, quadrantIdx, productIndex,
                   productsScrapedCount, consecutiveFailures, attempts,
                   rateLimitHits, rateLimitBackoffMs, currentCookieFile,
                   browserCookies, browserClosed, layoutMode>>

\* saveProductToDb: the lookup by the exact address; an error is rethrown
\* and caught by the function's own outer catch ("Save Error")
SaveLookup(outcome) ==
    /\ pc = "save_lookup"
    /\ UNCHANGED <<transVars, priceVars, sideVars>>
    /\ UNCHANGED <<pageErrorPending, embeddingRequests>>
    /\ accessBlocked' = (accessBlocked \/ outcome = "allow_list")
    /\ UNCHANGED <<basicData, productImages, restLog, refills>>
    /\ outcome \in DbOutcomes
    /\ pc' = IF outcome = "answer" /\ ~FindFirstByUrl(db, pData.url)
             THEN "save_create"
             ELSE "count"
    /\ UNCHANGED <<isRunning, hasPageError, flagAtIterStart, pageUrl, visitUrl,
                   pData, visitLog, db, batchQueue, quadrantIdx, productIndex,
                   productsScrapedCount, consecutiveFailures, attempts,
                   rateLimitHits, rateLimitBackoffMs, currentCookieFile,
                   browserCookies, browserClosed, layoutMode>>

ImageOutcomes == {"none", "ok", "error"}

\* mutant: a failed image step deletes the product row again
SavedRows_RollsBack(rows, url, gallery, desc) ==
    IF "error" \in {gallery, desc} THEN rows ELSE Append(rows, url)

\* the Product rows after the create call has succeeded and the two image
\* steps have ended as given
SavedRows(rows, url, gallery, desc) == Append(rows, url)

\* the ProductImage rows the two createMany calls add for the product
SavedImages(url, gallery, desc) ==
    {[purchaseUrl |-> url, type |-> "GALLERY"] : x \in {gallery} \cap {"ok"}}
        \cup {[purchaseUrl |-> url, type |-> "DESCRIPTION"] :
                  x \in {desc} \cap {"ok"}}

\* saveProductToDb: prisma.product.create; an error ends the save (the
\* allow_list error through the outer catch).  After a successful create,
\* the gallery images (an error is caught and logged) and the description
\* images (an error lands in the outer catch); each step is skipped when
\* the product has no such images ("none").
SaveCreate(outcome, gallery, desc) ==
    /\ pc = "save_create"
    /\ UNCHANGED <<transVars, priceVars, sideVars>>
    /\ UNCHANGED pageErrorPending
    \* generateEmbedding(newProduct.id) comes after the description images
    /\ embeddingRequests' =
          IF outcome = "answer" /\ desc # "error"
          THEN Append(embeddingRequests, pData.url)
          ELSE embeddingRequests
    /\ accessBlocked' = (accessBlocked \/ outcome = "allow_list")
    /\ UNCHANGED <<basicData, restLog, refills>>
    /\ outcome \in DbOutcomes
    /\ gallery \in ImageOutcomes
    /\ desc \in ImageOutcomes
    /\ IF outcome = "answer"
       THEN /\ db' = SavedRows(db, pData.url, gallery, desc)
            /\ productImages' =
                   productImages \cup SavedImages(pData.url, gallery, desc)
            /\ visitLog' = visitLog \cup {"create"}
                   \cup {"image_error" : x \in {gallery, desc} \cap {"error"}}
       ELSE /\ visitLog' = visitLog \cup {"create"}
            /\ UNCHANGED <<db, productImages>>
    /\ pc' = "count"
    /\ UNCHANGED <<isRunning, hasPageError, flagAtIterStart, pageUrl, visitUrl,
                   pData, batchQueue, quadrantIdx, productIndex,
                   productsScrapedCount, consecutiveFailures, attempts,
                   rateLimitHits, rateLimitBackoffMs, currentCookieFile,
                   browserCookies, browserClosed, layoutMode>>

----------------------------------------------------------------------------
(* The traversal loop after a visit *)

\* mutant: the limit is tested with > instead of >=
LimitReached_OffByOne(count) == count > PRODUCT_LIMIT

\* `if (productsScrapedCount >= PRODUCT_LIMIT)`
LimitReached(count) == count >= PRODUCT_LIMIT

\* `if (scraped) { productsScrapedCount++; limit check ... }`
Count ==
    /\ pc = "count"
    /\ UNCHANGED <<transVars, priceVars, sideVars>>
    /\ UNCHANGED <<pageErrorPending, embeddingRequests>>
    /\ UNCHANGED <<accessBlocked, basicData, productImages, restLog, refills>>
    /\ productsScrapedCount' = productsScrapedCount + 1
    /\ IF LimitReached(productsScrapedCount')
       THEN isRunning' = FALSE /\ pc' = "closing" /\ UNCHANGED attempts
       ELSE attempts' = 0 /\ pc' = "backnav" /\ UNCHANGED isRunning
    /\ UNCHANGED <<hasPageError, flagAtIterStart, pageUrl, visitUrl, pData,
                   visitLog, db, batchQueue, quadrantIdx, productIndex,
                   consecutiveFailures, rateLimitHits, rateLimitBackoffMs,
                   currentCookieFile, browserCookies, browserClosed, layoutMode>>

\* `if (attempts >= maxAttempts)`: whether CATEGORY_URL is force-loaded after
\* the back loop, which was left with n attempts made and the page on u
ForceNeeded(n, u) == n >= maxAttempts

\* one round of `while (attempts < maxAttempts)`: classify the address and
\* goBack (a goBack error is caught), or leave the loop
BackNav(dest, throws) ==
    /\ pc = "backnav"
    /\ UNCHANGED <<transVars, priceVars, sideVars>>
    /\ UNCHANGED <<pageErrorPending, embeddingRequests>>
    /\ UNCHANGED <<accessBlocked, basicData, productImages, restLog, refills>>
    /\ IF attempts < maxAttempts /\ NeedsBack(pageUrl)
       THEN /\ IF throws THEN UNCHANGED <<pageUrl, hasPageError>>
               ELSE Navigate(dest)
            /\ attempts' = attempts + 1
            /\ pc' = "backnav"
       ELSE /\ pc' = IF ForceNeeded(attempts, pageUrl) THEN "force" ELSE "wait_next"
            /\ UNCHANGED <<pageUrl, hasPageError, attempts>>
    /\ UNCHANGED <<isRunning, flagAtIterStart, visitUrl, pData, visitLog, db,
                   batchQueue, quadrantIdx, productIndex, productsScrapedCount,
                   consecutiveFailures, rateLimitHits, rateLimitBackoffMs,
                   currentCookieFile, browserCookies, browserClosed, layoutMode>>

\* "Forcing reload of Category URL": page.goto(CATEGORY_URL); an error is caught
ForceReload(dest, throws) ==
    /\ pc = "force"
    /\ UNCHANGED <<transVars, priceVars, sideVars>>
    /\ UNCHANGED <<pageErrorPending, embeddingRequests>>
    /\ UNCHANGED <<accessBlocked, basicData, productImages, restLog, refills>>
    /\ IF throws THEN UNCHANGED <<pageUrl, hasPageError>> ELSE Navigate(dest)
    /\ pc' = "wait_next"
    /\ UNCHANGED <<isRunning, flagAtIterStart, visitUrl, pData, visitLog, db,
                   batchQueue, quadrantIdx, productIndex, productsScrapedCount,
                   consecutiveFailures, attempts, rateLimitHits,
                   rateLimitBackoffMs, currentCookieFile, browserCookies,
                   browserClosed, layoutMode>>

\* "Waiting 15 seconds before next product..."
WaitNext ==
    /\ pc = "wait_next"
    /\ UNCHANGED <<transVars, priceVars, sideVars>>
    /\ UNCHANGED <<pageErrorPending, embeddingRequests>>
    /\ UNCHANGED <<accessBlocked, basicData, productImages, restLog, refills>>
    /\ pc' = "tail"
    /\ UNCHANGED <<isRunning, hasPageError, flagAtIterStart, pageUrl, visitUrl,
                   pData, visitLog, db, batchQueue, quadrantIdx, productIndex,
                   productsScrapedCount, consecutiveFailures, attempts,
                   rateLimitHits, rateLimitBackoffMs, currentCookieFile,
                   browserCookies, browserClosed, layoutMode>>

\* `catch (e)` of the iteration
Catch ==
    /\ pc = "catch"
    /\ UNCHANGED <<transVars, priceVars, sideVars>>
    /\ UNCHANGED <<pageErrorPending, embeddingRequests>>
    /\ UNCHANGED <<accessBlocked, basicData, productImages, restLog, refills>>
    /\ consecutiveFailures' =
          IF consecutiveFailures + 1 > MaxConsecutiveFailures
          THEN 0                                   \* pause, then reset
          ELSE consecutiveFailures + 1
    /\ pc' = "tail"
    /\ UNCHANGED <<isRunning, hasPageError, flagAtIterStart, pageUrl, visitUrl,
                   pData, visitLog, db, batchQueue, quadrantIdx, productIndex,
                   productsScrapedCount, attempts, rateLimitHits,
                   rateLimitBackoffMs, currentCookieFile, browserCookies,
                   browserClosed, layoutMode>>

\* `productIndex++; if (!isRunning) break;`
EndIteration(cap) ==
    /\ pc = "tail"
    /\ UNCHANGED <<transVars, priceVars, sideVars>>
    /\ UNCHANGED <<pageErrorPending, embeddingRequests>>
    /\ UNCHANGED <<accessBlocked, productImages, restLog, refills>>
    /\ basicData' = <<>>
    /\ productIndex < cap
    /\ productIndex' = productIndex + 1
    /\ pc' = IF isRunning THEN "loop" ELSE "closing"
    \* the block-scoped locals of the iteration go out of scope
    /\ quadrantIdx' = 0
    /\ visitUrl' = CATEGORY_URL
    /\ pData' = "null"
    /\ visitLog' = {}
    /\ attempts' = 0
    /\ UNCHANGED <<isRunning, hasPageError, flagAtIterStart, pageUrl, db,
                   batchQueue, productsScrapedCount, consecutiveFailures,
                   rateLimitHits, rateLimitBackoffMs, currentCookieFile,
                   browserCookies, browserClosed, layoutMode>>

\* after the loop: browser.close(), prisma.$disconnect(), process.exit(0)
Close ==
    /\ pc = "closing"
    /\ UNCHANGED <<transVars, priceVars, sideVars>>
    /\ UNCHANGED <<pageErrorPending, embeddingRequests>>
    /\ UNCHANGED <<accessBlocked, basicData, productImages, restLog, refills>>
    /\ browserClosed' = TRUE
    /\ pc' = "done"
    /\ UNCHANGED <<isRunning, hasPageError, flagAtIterStart, pageUrl, visitUrl,
                   pData, visitLog, db, batchQueue, quadrantIdx, productIndex,
                   productsScrapedCount, consecutiveFailures, attempts,
                   rateLimitHits, rateLimitBackoffMs, currentCookieFile,
                   browserCookies, layoutMode>>

----------------------------------------------------------------------------
(* Text translation: translateText and batchTranslate.  A text is the      *)
(* sequence of the classes of its characters: "ar" an Arabic letter        *)
(* (U+0600-06FF), "zh" a Chinese character (U+4E00-9FA5), "sp" white       *)
(* space, "dg" a digit, dot or dash.  A JSON value that is not a string    *)
(* (a number, an object) is NotString; null and undefined behave as "".    *)

NotString == <<"num">>

\* JavaScript truthiness of a string or of a JSON value
Truthy(v) == v # <<>>

HasArabic(text) == \E i \in 1..Len(text) : text[i] = "ar"

HasChinese(text) == \E i \in 1..Len(text) : text[i] = "zh"

RECURSIVE DropLeading(_, _)
DropLeading(text, cls) ==
    IF text # <<>> /\ Head(text) = cls
    THEN DropLeading(Tail(text), cls)
    ELSE text

RECURSIVE DropTrailing(_, _)
DropTrailing(text, cls) ==
    IF text # <<>> /\ text[Len(text)] = cls
    THEN DropTrailing(SubSeq(text, 1, Len(text) - 1), cls)
    ELSE text

\* String.prototype.trim
Trim(text) == DropTrailing(DropLeading(text, "sp"), "sp")

\* `!text || !text.trim()`
IsBlank(text) == Trim(text) = <<>>

\* `/[\u0600-\u06FF]/.test(text) && text.length > text.length * 0.5`
AlreadyArabic(text) == HasArabic(text) /\ 2 * Len(text) > Len(text)

\* mutant: only blank items are skipped
Skip_OnlyBlank(text) == IsBlank(text)

\* the skip flag computed for an item of needsTranslation
Skip(text) == IsBlank(text) \/ AlreadyArabic(text)

\* toTranslate.map(item => item.text): the payload of a batch request
RECURSIVE ToTranslate(_)
ToTranslate(list) ==
    IF list = <<>> THEN <<>>
    ELSE IF Skip(Head(list)) THEN ToTranslate(Tail(list))
    ELSE <<Head(list)>> \o ToTranslate(Tail(list))

\* `context === 'option' ? 3 : 1`
Attempts(ctx) == IF ctx = "option" THEN 3 ELSE 1

\* l.replace(/^[0-9.-]+\s*/, '').trim()
CleanLine(line) ==
    IF line # <<>> /\ Head(line) = "dg"
    THEN Trim(DropLeading(DropLeading(line, "dg"), "sp"))
    ELSE Trim(line)

\* What one batch response yields as `results`:
\*   "throw"      the request, the timeout race or reading the content throws
\*   "json"       JSON whose translations / top level / first value is an array
\*   "json_other" JSON that yields no array
\*   "text"       content that JSON.parse rejects, split into its lines
ExtractResults(reply) ==
    IF reply.kind = "text"
    THEN [i \in 1..Len(reply.results) |-> CleanLine(reply.results[i])]
    ELSE reply.results

\* results.some(r => r && /[\u4e00-\u9fa5]/.test(r))
StillHasChinese(results) ==
    \E i \in 1..Len(results) : Truthy(results[i]) /\ HasChinese(results[i])

\* mutant: the results are not looked at for Chinese characters
Accepts_AnyResults(ctx, reply) == reply.kind \in {"json", "text"}

\* tryBatch returns the results of this response
Accepts(ctx, reply) ==
    /\ reply.kind \in {"json", "text"}
    /\ ~(ctx = "option" /\ StillHasChinese(ExtractResults(reply)))

\* translateIdx when the forEach reaches item i
TranslateIdx(list, i) == Len(ToTranslate(SubSeq(list, 1, i - 1)))

\* the value stored in finalResults[i] for an item that is not skipped
ReassembledItem(text, values, idx) ==
    LET translated == IF idx + 1 <= Len(values) /\ Truthy(values[idx + 1])
                      THEN values[idx + 1]
                      ELSE text
    IN  IF Truthy(translated) /\ Trim(translated) # <<>>
        THEN translated
        ELSE text

\* translated.trim() on a value that is not a string raises a TypeError
ReassemblyThrows(list, values) ==
    \E i \in 1..Len(list) :
        /\ ~Skip(list[i])
        /\ TranslateIdx(list, i) + 1 <= Len(values)
        /\ values[TranslateIdx(list, i) + 1] = NotString

\* mutant: the list returned by the model is returned as it is
Reassemble_ReturnsValues(list, values) == values

\* finalResults: a copy of texts with the items sent replaced
Reassemble(list, values) ==
    [i \in 1..Len(list) |->
        IF Skip(list[i])
        THEN list[i]
        ELSE ReassembledItem(list[i], values, TranslateIdx(list, i))]

\* cleanup of a single translation: markers, code fences, Cyrillic, dashes and
\* quotes are outside the alphabet of the model, what is left is the trimming
CleanContent(content) == Trim(content)

\* mutant: nothing is returned when both models failed
BothModelsFailed_ReturnsEmpty(text) == [throws |-> FALSE, value |-> <<>>]

\* translateText when tryTranslate threw for the target and the backup model
BothModelsFailed(text) == [throws |-> FALSE, value |-> text]

\* translateText returns before any request
ReturnsEarly(text) == IsBlank(text) \/ AlreadyArabic(text)

EarlyResult(text) == IF IsBlank(text) THEN <<>> ELSE text

TransIdle ==
    /\ texts = <<>>
    /\ context = "option"
    /\ tEntry = "none"
    /\ tpc = "idle"
    /\ tTier = "target"
    /\ tAttempt = 0
    /\ tItem = 0
    /\ tResult = <<>>
    /\ tPath = "none"
    /\ tRequests = {}
    /\ tUsed = <<>>
    /\ tAllFailed = TRUE
    /\ tReturned = {}

\* batchTranslate up to the first request
BatchStart ==
    /\ tpc = "start"
    /\ UNCHANGED <<loopVars, priceVars, sideVars>>
    /\ IF texts = <<>>
       THEN /\ tpc' = "done"
            /\ tResult' = <<>>
            /\ tPath' = "empty"
       ELSE IF ToTranslate(texts) = <<>>
       THEN /\ tpc' = "done"
            /\ tResult' = texts
            /\ tPath' = "all_skipped"
       ELSE /\ tpc' = "batch"
            /\ UNCHANGED <<tResult, tPath>>
    /\ UNCHANGED <<texts, context, tEntry, tTier, tAttempt, tItem, tRequests,
                   tUsed, tAllFailed, tReturned>>

\* `timeout: 120000` of the client every request goes through
ClientTimeoutMs == 120000

\* the delay of the timer tryBatch races its request against
ManualTimeoutMs == 110000

\* one attempt of tryBatch(model), and what batchTranslate does when
\* tryBatch returns or throws.  The request is raced against a timer of
\* ManualTimeoutMs; the timer's rejection is a reply of kind "throw".
TryBatch(reply) ==
    /\ tpc = "batch"
    /\ UNCHANGED <<loopVars, priceVars, sideVars>>
    /\ tRequests' = tRequests \cup
                        {[call |-> "tryBatch", tier |-> tTier,
                          payload |-> ToTranslate(texts),
                          timer |-> <<ManualTimeoutMs>>]}
    /\ tAllFailed' = (tAllFailed /\ reply.kind = "throw")
    /\ LET results == ExtractResults(reply)
           accepted == Accepts(context, reply)
           usable == accepted /\ ~ReassemblyThrows(texts, results)
           exhausted == tAttempt + 1 >= Attempts(context)
       IN  /\ tReturned' = IF accepted THEN tReturned \cup {tTier} ELSE tReturned
           /\ tUsed' = IF usable
                       THEN <<[tier |-> tTier, kind |-> reply.kind,
                               count |-> Len(results)]>>
                       ELSE tUsed
           /\ IF usable
              THEN /\ tpc' = "done"
                   /\ tResult' = Reassemble(texts, results)
                   /\ tPath' = tTier
                   /\ UNCHANGED <<tTier, tAttempt, tItem>>
              ELSE IF (accepted \/ exhausted) /\ tTier = "target"
              THEN /\ tTier' = "backup"
                   /\ tAttempt' = 0
                   /\ UNCHANGED <<tpc, tResult, tPath, tItem>>
              ELSE IF accepted \/ exhausted
              THEN /\ tpc' = "items"
                   /\ tTier' = "target"
                   /\ tAttempt' = 0
                   /\ tItem' = 1
                   /\ UNCHANGED <<tResult, tPath>>
              ELSE /\ tAttempt' = tAttempt + 1
                   /\ UNCHANGED <<tpc, tTier, tResult, tPath, tItem>>
    /\ UNCHANGED <<texts, context, tEntry>>

\* translateText(t, ...) has produced its outcome for item tItem; the
\* Promise.all of the per-item fallback resolves once every item has
ItemSettled(outcome) ==
    /\ tTier' = "target"
    /\ tAttempt' = 0
    /\ IF outcome.throws
       THEN /\ tpc' = "thrown"
            /\ UNCHANGED <<tResult, tPath, tItem>>
       ELSE /\ tResult' = Append(tResult, outcome.value)
            /\ tItem' = tItem + 1
            /\ IF tItem = Len(texts)
               THEN /\ tpc' = "done"
                    /\ tPath' = "items"
               ELSE UNCHANGED <<tpc, tPath>>

\* translateText on a blank or already Arabic text
ItemReturnsEarly ==
    /\ tpc = "items"
    /\ UNCHANGED <<loopVars, priceVars, sideVars>>
    /\ ReturnsEarly(texts[tItem])
    /\ ItemSettled([throws |-> FALSE, value |-> EarlyResult(texts[tItem])])
    /\ UNCHANGED <<texts, context, tEntry, tRequests, tUsed, tAllFailed,
                   tReturned>>

\* one attempt of tryTranslate(model), and what translateText does when
\* tryTranslate returns or throws.  The request is awaited directly, with no
\* timer beside it.
TryTranslate(reply) ==
    /\ tpc = "items"
    /\ UNCHANGED <<loopVars, priceVars, sideVars>>
    /\ ~ReturnsEarly(texts[tItem])
    /\ tRequests' = tRequests \cup
                        {[call |-> "tryTranslate", tier |-> tTier,
                          payload |-> <<texts[tItem]>>, timer |-> <<>>]}
    /\ tAllFailed' = (tAllFailed /\ reply.kind = "throw")
    /\ LET finalContent == CleanContent(reply.content)
           returned == /\ reply.kind = "content"
                       /\ ~(context = "option" /\ HasChinese(finalContent))
           exhausted == tAttempt + 1 >= Attempts(context)
       IN  IF returned
           THEN ItemSettled([throws |-> FALSE, value |-> finalContent])
           ELSE IF exhausted /\ tTier = "target"
           THEN /\ tTier' = "backup"
                /\ tAttempt' = 0
                /\ UNCHANGED <<tpc, tResult, tPath, tItem>>
           ELSE IF exhausted
           THEN ItemSettled(BothModelsFailed(texts[tItem]))
           ELSE /\ tAttempt' = tAttempt + 1
                /\ UNCHANGED <<tpc, tTier, tResult, tPath, tItem>>
    /\ UNCHANGED <<texts, context, tEntry, tUsed, tReturned>>

\* the two-model sequence of formatDescriptionToKV and generateAiMetadata:
\* one request per model, awaited directly; the first reply that parses as
\* JSON is returned, and `fallback` after both models have failed
TryJsonModels(try, reply, fallback) ==
    /\ tRequests' = tRequests \cup
                        {[call |-> try, tier |-> tTier, payload |-> texts,
                          timer |-> <<>>]}
    /\ tAllFailed' = (tAllFailed /\ reply.kind = "throw")
    /\ IF reply.kind = "json"
       THEN /\ tpc' = "done"
            /\ tResult' = <<reply.content>>
            /\ tPath' = tTier
            /\ UNCHANGED tTier
       ELSE IF tTier = "target"
       THEN /\ tTier' = "backup"
            /\ UNCHANGED <<tpc, tResult, tPath>>
       ELSE /\ tpc' = "done"
            /\ tResult' = fallback
            /\ tPath' = "fallback"
            /\ UNCHANGED tTier
    /\ UNCHANGED <<texts, context, tEntry, tAttempt, tItem, tUsed, tReturned>>

\* formatDescriptionToKV on a missing or blank text
FormatReturnsEarly ==
    /\ tpc = "format"
    /\ UNCHANGED <<loopVars, priceVars, sideVars>>
    /\ IsBlank(texts[1])
    /\ tpc' = "done"
    /\ tResult' = <<>>
    /\ tPath' = "empty"
    /\ UNCHANGED <<texts, context, tEntry, tTier, tAttempt, tItem, tRequests,
                   tUsed, tAllFailed, tReturned>>

\* tryFormat(model), and what formatDescriptionToKV does when it returns or
\* throws; the last resort is the object holding the whole text
TryFormat(reply) ==
    /\ tpc = "format"
    /\ UNCHANGED <<loopVars, priceVars, sideVars>>
    /\ ~IsBlank(texts[1])
    /\ TryJsonModels("tryFormat", reply, <<texts[1]>>)

\* tryGenerate(model), and what generateAiMetadata does when it returns or
\* throws; the last resort is the empty object
TryGenerate(reply) ==
    /\ tpc = "generate"
    /\ UNCHANGED <<loopVars, priceVars, sideVars>>
    /\ TryJsonModels("tryGenerate", reply, <<>>)

----------------------------------------------------------------------------
(* Prices.  The main-page price is counted in hundredths of a yuan (the    *)
(* page shows two decimals), amounts in IQD are integers.  The code works  *)
(* on doubles; on these amounts price * 1.15 never rounds across a         *)
(* multiple of 10, so the exact arithmetic below gives the same results.   *)

\* Math.ceil(a / b) for b > 0
CeilDiv(a, b) == -((-a) \div b)

\* a JavaScript value that is a number n
Num(n) == [numeric |-> TRUE, value |-> n]

\* a JavaScript value that Number() and parseFloat() turn into NaN
NotANumber == [numeric |-> FALSE, value |-> 0]

\* `Number(base) || 0`, and `parseFloat(x) || 0`
NumberOrZero(raw) == IF raw.numeric THEN raw.value ELSE 0

\* mutant: the margin is rounded down to the denomination
calculateFinalPrice_RoundsDown(base) ==
    IF NumberOrZero(base) <= 0 THEN 0
    ELSE ((NumberOrZero(base) * 115) \div 1000) * 10

\* mutant: the guard on a price that is not positive is missing
calculateFinalPrice_NoGuard(base) ==
    CeilDiv(NumberOrZero(base) * 115, 1000) * 10

\* calculateFinalPrice: price * 1.15, then Math.ceil(priceWithMargin / 10) * 10
calculateFinalPrice(base) ==
    LET amount == NumberOrZero(base)              \* `price` in the source
    IN  IF amount <= 0 THEN 0
        ELSE CeilDiv(amount * 115, 1000) * 10

SetMin(S) == CHOOSE m \in S : \A x \in S : m <= x

\* mutant: the option prices are preferred to the main-page price
finalGeneralPrice_PrefersOptions(pagePrice, prices) ==
    LET validPrices == {p \in prices : p > 0}
    IN  IF validPrices # {} THEN SetMin(validPrices)
        ELSE (pagePrice * 200) \div 100

\* finalGeneralPrice of scrapeProduct: mainPagePrice * 200, else the lowest
\* positive option price, else 0
finalGeneralPrice(pagePrice, prices) ==
    LET validPrices == {p \in prices : p > 0}
    IN  IF pagePrice > 0 THEN (pagePrice * 200) \div 100
        ELSE IF validPrices # {} THEN SetMin(validPrices)
        ELSE 0

PriceIdle ==
    /\ mainPagePrice = 0
    /\ optionPrices = {}
    /\ general_price = Num(0)
    /\ price = 0
    /\ basePriceIQD = 0
    /\ ppc = "idle"

\* scrapeProduct builds finalData.general_price
PriceScrape ==
    /\ ppc = "scrape"
    /\ general_price' = Num(finalGeneralPrice(mainPagePrice, optionPrices))
    /\ ppc' = "save"
    /\ UNCHANGED <<mainPagePrice, optionPrices, price, basePriceIQD>>
    /\ UNCHANGED <<loopVars, transVars, sideVars>>

\* saveProductToDb: the price fields of prisma.product.create
PriceSave ==
    /\ ppc = "save"
    /\ price' = calculateFinalPrice(general_price)
    /\ basePriceIQD' = NumberOrZero(general_price)
    /\ ppc' = "done"
    /\ UNCHANGED <<mainPagePrice, optionPrices, general_price>>
    /\ UNCHANGED <<loopVars, transVars, sideVars>>

----------------------------------------------------------------------------
(* The addImageLog images of the page evaluation. A src is a sequence of       *)
(* pieces: the scheme, the pieces of the path, and, after a "?" piece, the *)
(* query; <<>> is a missing src.                                           *)

GalleryPaths ==
    {<<"p1">>, <<"p2">>, <<"p1", "avatar">>, <<"icon">>, <<"coupon">>,
     <<"video-snapshot">>}

GallerySrcs ==
    {<<"http">> \o p : p \in GalleryPaths}
        \cup {<<"http">> \o p \o <<"?", "q1">> : p \in GalleryPaths}
        \cup {<<"http", "p1", "?", "icon">>, <<"data", "p1">>, <<>>}

\* src.startsWith('http')
StartsWithHttp(src) == Len(src) > 0 /\ src[1] = "http"

\* src.split('?')[0]
CleanSrc(src) ==
    LET marks == {i \in 1..Len(src) : src[i] = "?"}
    IN  IF marks = {} THEN src
        ELSE SubSeq(src, 1, (CHOOSE i \in marks : \A j \in marks : i <= j) - 1)

\* mutant: only the icon and avatar patterns are filtered out
Denied_IconsOnly(cleanSrc) ==
    \E i \in 1..Len(cleanSrc) : cleanSrc[i] \in {"avatar", "icon"}

\* cleanSrc.includes(...) of one of the four patterns
Denied(cleanSrc) ==
    \E i \in 1..Len(cleanSrc) :
        cleanSrc[i] \in {"avatar", "icon", "coupon", "video-snapshot"}

ImagesIdle ==
    /\ addImageLog = <<>>
    /\ seenImages = {}
    /\ main_images = <<>>
    /\ imageStrategy = 0
    /\ imageStrategies = {}

\* addImage(src), called by the strategy the evaluation is at
AddImage(src) ==
    /\ imageStrategy \in 0..3
    /\ Len(addImageLog) < MaxImages
    /\ addImageLog' = Append(addImageLog, src)
    /\ IF src = <<>> \/ ~StartsWithHttp(src)
           \/ CleanSrc(src) \in seenImages \/ Denied(CleanSrc(src))
       THEN UNCHANGED <<seenImages, main_images, imageStrategies>>
       ELSE /\ seenImages' = seenImages \cup {CleanSrc(src)}
            /\ main_images' = Append(main_images, CleanSrc(src))
            /\ imageStrategies' = imageStrategies \cup {imageStrategy}
    /\ UNCHANGED imageStrategy
    /\ UNCHANGED <<loopVars, transVars, priceVars, aiVars, cookieVars,
                   optionVars, gotoVars>>

\* the strategy that runs after strategy s: strategy 1 always follows
\* strategy 0; strategies 2 and 3 run only while main_images is empty;
\* 4 is the end of the image extraction
NextStrategy(s, images) ==
    IF s = 0 THEN 1
    ELSE IF s < 3 /\ images = <<>> THEN s + 1
    ELSE 4

\* the strategy the evaluation is at has handed over all its src values
StrategyDone ==
    /\ imageStrategy \in 0..3
    /\ imageStrategy' = NextStrategy(imageStrategy, main_images)
    /\ UNCHANGED <<addImageLog, seenImages, main_images, imageStrategies>>
    /\ UNCHANGED <<loopVars, transVars, priceVars, aiVars, cookieVars,
                   optionVars, gotoVars>>

----------------------------------------------------------------------------
(* The variant options of the page evaluation. A label is the sequence of  *)
(* its characters: "bai" and "hei" for the Chinese characters U+767D       *)
(* (white) and U+9ED1 (black), the letter "a", "1" for a digit or dot,     *)
(* "-", "sp" for white space, and "quanhou" for the promotional marker     *)
(* U+5238 U+540E.                                                          *)

ChineseChars == {"bai", "hei"}

RawLabels ==
    {<<"bai">>, <<"bai", "sp", "1">>, <<"bai", "-", "1">>, <<"bai", "quanhou", "1">>,
     <<"hei", "sp", "sp", "bai">>, <<"hei", "sp", "bai">>, <<"a">>, <<"a", "a">>,
     <<"1">>, <<>>}

Thumbnails == {"t1", "t2"}

OptionListItems == [text : RawLabels, thumbnail : Thumbnails]

\* colorName.split(marker)[0].trim() when colorName.includes(marker)
BeforePromo(label) ==
    LET marks == {i \in 1..Len(label) : label[i] = "quanhou"}
    IN  IF marks = {} THEN label
        ELSE Trim(SubSeq(label, 1,
                         (CHOOSE i \in marks : \A j \in marks : i <= j) - 1))

\* colorName.replace(/[-]?\s*[\d.]+$/, '').trim()
WithoutTrailingPrice(label) ==
    LET digits == DropTrailing(label, "1")
        spaces == DropTrailing(digits, "sp")
    IN  IF digits = label THEN Trim(label)
        ELSE IF spaces # <<>> /\ spaces[Len(spaces)] = "-"
        THEN Trim(SubSeq(spaces, 1, Len(spaces) - 1))
        ELSE Trim(spaces)

\* colorName.replace(/\s+/g, ' ').trim()
RECURSIVE SingleSpaces(_)
SingleSpaces(label) ==
    IF Len(label) < 2 THEN label
    ELSE IF label[1] = "sp" /\ label[2] = "sp" THEN SingleSpaces(Tail(label))
    ELSE <<Head(label)>> \o SingleSpaces(Tail(label))

\* the cleaned colour name of a list item's text
CleanLabel(text) ==
    Trim(SingleSpaces(WithoutTrailingPrice(BeforePromo(Trim(text)))))

\* /[\u4e00-\u9fa5]/.test(colorName)
LabelHasChinese(label) == \E i \in 1..Len(label) : label[i] \in ChineseChars

\* mutant: every label of one character is dropped
LabelFiltered_AnyShort(label) == Len(label) <= 1

\* the filter: a label of at most one character without a Chinese
\* character, or an empty label, is dropped
LabelFiltered(label) ==
    (Len(label) <= 1 /\ ~LabelHasChinese(label)) \/ label = <<>>

\* mutant: no label counts as already present
ColorPresent_Never(options, label) == FALSE

\* options.some(o => o.color === colorName)
ColorPresent(options, label) ==
    \E k \in 1..Len(options) : options[k].color = label

OptionsIdle ==
    /\ optionItems = <<>>
    /\ generated_options = <<>>

\* one round of items.forEach in the option extraction
ReadOptionItem(item) ==
    /\ Len(optionItems) < MaxOptionItems
    /\ optionItems' = Append(optionItems, item)
    /\ LET colorName == CleanLabel(item.text)
       IN  IF LabelFiltered(colorName)
              \/ ColorPresent(generated_options, colorName)
           THEN UNCHANGED generated_options
           ELSE generated_options' =
                    Append(generated_options,
                           [color |-> colorName, thumbnail |-> item.thumbnail])
    /\ UNCHANGED <<loopVars, transVars, priceVars, aiVars, cookieVars,
                   imageVars, gotoVars>>

\* limitedOptions.map(opt => opt.color): the list handed to batchTranslate
OptionNames ==
    [k \in 1..Min(Len(generated_options), OptionLimit) |->
        generated_options[k].color]

----------------------------------------------------------------------------
(* safeGoto. A navigation ends with a response of some status, with no     *)
(* response (null), or by throwing (a timeout).                            *)

GotoStatuses == {200, 403, 404, 429, 500, 503}

NullResponse == [kind |-> "null", status |-> 0]

GotoOutcomes ==
    {[kind |-> "response", status |-> n] : n \in GotoStatuses}
        \cup {NullResponse, [kind |-> "throws", status |-> 0]}

GotoIdle ==
    /\ gotoPc = "idle"
    /\ gotoAttempt = 0
    /\ gotoLog = <<>>
    /\ gotoResult = <<>>

\* the call safeGoto(page, CATEGORY_URL, options)
GotoCall ==
    /\ gotoPc = "idle"
    /\ gotoPc' = "attempt"
    /\ UNCHANGED <<gotoAttempt, gotoLog, gotoResult>>
    /\ UNCHANGED <<loopVars, transVars, priceVars, aiVars, cookieVars,
                   imageVars, optionVars>>

\* mutant: every response from 400 on is thrown as an error
GotoRetried_ErrorStatuses(outcome) ==
    outcome.kind = "throws" \/ outcome.status >= 400

\* the outcomes that reach the catch block: page.goto threw, or the
\* response has status 429
GotoRetried(outcome) == outcome.kind = "throws" \/ outcome.status = 429

\* the delays of one round of the loop, by its outcome: the one before
\* 'Rate Limited' is thrown and the one of the catch block
GotoDelays(i, outcome) ==
    (IF outcome.status = 429
     THEN <<[delay |-> 5000 * (i + 1), at |-> "429"]>> ELSE <<>>)
        \o (IF GotoRetried(outcome) /\ i # Retries
            THEN <<[delay |-> 2000 * (i + 1), at |-> "catch"]>> ELSE <<>>)

\* one round of the loop of safeGoto
GotoAttempt(outcome) ==
    /\ gotoPc = "attempt"
    /\ outcome \in GotoOutcomes
    /\ IF ~isRunning
       THEN /\ gotoPc' = "returned"
            /\ gotoResult' = <<NullResponse>>
            /\ UNCHANGED <<gotoAttempt, gotoLog>>
       ELSE /\ gotoLog' = gotoLog \o <<[goto |-> outcome]>>
                              \o GotoDelays(gotoAttempt, outcome)
            /\ IF ~GotoRetried(outcome)
               THEN /\ gotoPc' = "returned"
                    /\ gotoResult' = <<outcome>>
                    /\ UNCHANGED gotoAttempt
               ELSE IF gotoAttempt = Retries
               THEN /\ gotoPc' = "thrown"
                    /\ gotoResult' = <<outcome>>
                    /\ UNCHANGED gotoAttempt
               ELSE /\ gotoPc' = "attempt"
                    /\ gotoAttempt' = gotoAttempt + 1
                    /\ UNCHANGED gotoResult
    /\ UNCHANGED <<loopVars, transVars, priceVars, aiVars, cookieVars,
                   imageVars, optionVars>>

----------------------------------------------------------------------------
(* The AI processing of scrapeProduct: four tasks started together and     *)
(* awaited with Promise.all, then the metadata request.                    *)

AiTaskNames == {"nameTask", "descriptionTask", "optionsTask", "reviewsTask"}

\* what translateText(text, 'product_name', ...) can resolve to
NameResults(text, replies) ==
    IF ReturnsEarly(text) THEN {EarlyResult(text)}
    ELSE {CleanContent(r.content) : r \in {q \in replies : q.kind = "content"}}
             \cup {BothModelsFailed(text).value}

\* mutant: the tasks are awaited with Promise.race
PromiseAll_Race(tasks) ==
    IF \E t \in DOMAIN tasks : tasks[t] # "pending" THEN "resolved"
    ELSE "pending"

\* the state of Promise.all over promises in the given states
PromiseAll(tasks) ==
    IF \E t \in DOMAIN tasks : tasks[t] = "rejected" THEN "rejected"
    ELSE IF \A t \in DOMAIN tasks : tasks[t] = "resolved" THEN "resolved"
    ELSE "pending"

AiIdle ==
    /\ aiPc = "idle"
    /\ product_name = <<>>
    /\ aiTasks = [t \in AiTaskNames |-> "none"]
    /\ aiSettled = <<>>
    /\ translatedName = <<>>
    /\ aiMetadataArg = <<>>

\* the four calls that create the promises; none is awaited yet
AiStartTasks ==
    /\ aiPc = "start"
    /\ aiTasks' = [t \in AiTaskNames |-> "pending"]
    /\ aiPc' = "await"
    /\ UNCHANGED <<product_name, aiSettled, translatedName, aiMetadataArg>>
    /\ UNCHANGED <<loopVars, transVars, priceVars, cookieVars, imageVars,
                   optionVars, gotoVars>>

\* one of the four promises resolves (each function catches its own
\* failures and resolves with its fallback value)
AiTaskSettles(t, value) ==
    /\ aiPc = "await"
    /\ aiTasks[t] = "pending"
    /\ aiTasks' = [aiTasks EXCEPT ![t] = "resolved"]
    /\ aiSettled' = Append(aiSettled, t)
    /\ translatedName' = IF t = "nameTask" THEN <<value>> ELSE translatedName
    /\ UNCHANGED <<aiPc, product_name, aiMetadataArg>>
    /\ UNCHANGED <<loopVars, transVars, priceVars, cookieVars, imageVars,
                   optionVars, gotoVars>>

\* `await Promise.all([...])` is resumed; then the options and reviews
\* are mapped (no awaited step)
AiAwaitAll ==
    /\ aiPc = "await"
    /\ PromiseAll(aiTasks) # "pending"
    /\ aiPc' = IF PromiseAll(aiTasks) = "resolved" THEN "metadata" ELSE "failed"
    /\ UNCHANGED <<product_name, aiTasks, aiSettled, translatedName,
                   aiMetadataArg>>
    /\ UNCHANGED <<loopVars, transVars, priceVars, cookieVars, imageVars,
                   optionVars, gotoVars>>

\* `await generateAiMetadata(translatedName, basicData.descriptionText)`;
\* translatedName is undefined (<<>>) while nameTask has not resolved
AiGenerateMetadata ==
    /\ aiPc = "metadata"
    /\ aiMetadataArg' = <<translatedName>>
    /\ aiPc' = "done"
    /\ UNCHANGED <<product_name, aiTasks, aiSettled, translatedName>>
    /\ UNCHANGED <<loopVars, transVars, priceVars, cookieVars, imageVars,
                   optionVars, gotoVars>>

SideIdle ==
    AiIdle /\ CookiesIdle /\ ImagesIdle /\ OptionsIdle /\ GotoIdle

----------------------------------------------------------------------------
(* Sessions *)

\* the state when the loop is first entered: first batch, page on the
\* listing, the cookies of one pool file installed by the initial loadCookies
InitLoop(modes, nFiles) ==
    /\ pc = "loop"
    /\ isRunning = TRUE
    /\ hasPageError = FALSE
    /\ flagAtIterStart = FALSE
    /\ pageUrl = CATEGORY_URL
    /\ visitUrl = CATEGORY_URL
    /\ pData = "null"
    /\ visitLog = {}
    /\ db = <<>>
    /\ batchQueue = <<>>
    /\ quadrantIdx = 0
    /\ productIndex = 0
    /\ productsScrapedCount = 0
    /\ consecutiveFailures = 0
    /\ attempts = 0
    /\ rateLimitHits = 0
    /\ rateLimitBackoffMs = InitialBackoffMs
    /\ currentCookieFile \in RandomCookieFiles(nFiles)
    /\ browserCookies = {currentCookieFile} \ {0}
    /\ browserClosed = FALSE
    /\ layoutMode \in modes
    /\ accessBlocked = FALSE
    /\ basicData = <<>>
    /\ productImages = {}
    /\ restLog = <<>>
    /\ refills = [orders |-> 0, scrolls |-> 0]
    /\ pageErrorPending = FALSE
    /\ embeddingRequests = <<>>

\* addresses a goBack or a redirect can land on, given the product pages
BackTargets(products) ==
    {CATEGORY_URL, VerificationUrl} \cup products
        \cup {ReviewsUrl(p) : p \in products}

ListingTargets == {CATEGORY_URL, VerificationUrl}

Statuses == {200, 403, 424, 429}

\* the product page of the storefront in the traversal session
MainProducts == {Url(GoodsPath, <<1>>, "")}

Init ==
    /\ InitLoop({"vertical-4"}, MaxCookieFiles)
    /\ TransIdle
    /\ PriceIdle
    /\ SideIdle

Next ==
    \/ LoopCheck
    \/ \E f \in RandomCookieFiles(MaxCookieFiles) : RotateLoad(TRUE, f, TRUE)
    \/ \E d \in ListingTargets, t \in BOOLEAN : RotateNav(d, t)
    \/ \E d \in BackTargets(MainProducts), t \in BOOLEAN : StuckBack(d, t)
    \/ \E o \in ClickOrders(layoutMode), t \in BOOLEAN :
           Refill(o, t, NoRestDraw(productIndex))
    \/ \E l \in BOOLEAN, d \in MainProducts \cup {VerificationUrl}, t \in BOOLEAN :
          Click(l, d, t)
    \/ \E c \in BOOLEAN : Classify(c)
    \/ \E o \in DbOutcomes : ScrapeDuplicateCheck(o)
    \/ \E ok \in BOOLEAN, d \in BackTargets(MainProducts) : ScrapeExtract(ok, d, <<"zh">>)
    \/ \E ok \in BOOLEAN : ScrapeTranslate(ok)
    \/ \E o \in DbOutcomes : SaveLookup(o)
    \/ \E o \in DbOutcomes : SaveCreate(o, "ok", "ok")
    \/ Count
    \/ \E d \in BackTargets(MainProducts), t \in BOOLEAN : BackNav(d, t)
    \/ \E d \in ListingTargets, t \in BOOLEAN : ForceReload(d, t)
    \/ WaitNext
    \/ Catch
    \/ EndIteration(MaxIterations)
    \/ Close
    \/ \E m \in BOOLEAN : OnPageError(m)
    \/ \E st \in Statuses \ {429} : OnResponse(st, 0)
    \/ Sigint

Spec == Init /\ [][Next]_vars

----------------------------------------------------------------------------
(* The blocked session: no click of the listing opens a product page, the  *)
(* site answers with 403/424/429 responses and verification redirects.     *)

NextSignals ==
    \/ LoopCheck
    \/ \E f \in RandomCookieFiles(MaxCookieFiles) : RotateLoad(TRUE, f, TRUE)
    \/ \E d \in ListingTargets, t \in BOOLEAN : RotateNav(d, t)
    \/ \E o \in ClickOrders(layoutMode) :
           Refill(o, FALSE, NoRestDraw(productIndex))
    \/ \E l \in BOOLEAN, t \in BOOLEAN : Click(l, VerificationUrl, t)
    \/ Classify(FALSE)
    \/ Catch
    \/ EndIteration(MaxIterations)
    \/ Close
    \/ \E m \in BOOLEAN : OnPageError(m)
    \/ \E st \in Statuses : OnResponse(st, MaxRateLimitHits)
    \/ Sigint

SpecSignals == Init /\ [][NextSignals]_vars

----------------------------------------------------------------------------
(* The long session: an undisturbed traversal up to the product limit.     *)

LimitIterations == PRODUCT_LIMIT + MaxMisses

NextLimit ==
    \/ LoopCheck
    \/ \E o \in ClickOrders(layoutMode) :
           Refill(o, FALSE, NoRestDraw(productIndex))
    \/ \E l \in BOOLEAN, d \in MainProducts : Click(l, d, FALSE)
    \/ Classify(FALSE)
    \/ ScrapeDuplicateCheck("answer")
    \/ \E ok \in BOOLEAN : ScrapeExtract(ok, pageUrl, <<"zh">>)
    \/ ScrapeTranslate(TRUE)
    \/ SaveLookup("answer")
    \/ SaveCreate("answer", "ok", "ok")
    \/ Count
    \/ BackNav(CATEGORY_URL, FALSE)
    \/ WaitNext
    \/ EndIteration(LimitIterations)
    \/ Close
    \/ Sigint

SpecLimit == Init /\ [][NextLimit]_vars

----------------------------------------------------------------------------
(* The session of product visits: every click opens one of a few product   *)
(* pages, two of which carry the same goods_id with different referrer     *)
(* noise and one a goods_id that extends it; every persistence call can    *)
(* answer, fail, or fail with the allow_list restriction.                  *)

VisitProducts ==
    {Url(GoodsPath, <<1>>, ""), Url(GoodsPath, <<1>>, "a"),
     Url(GoodsPath, <<1, 2>>, "")}

NextVisit ==
    \/ LoopCheck
    \/ \E o \in ClickOrders(layoutMode) :
           Refill(o, FALSE, NoRestDraw(productIndex))
    \/ \E d \in VisitProducts : Click(TRUE, d, FALSE)
    \/ Classify(FALSE)
    \/ \E o \in DbOutcomes : ScrapeDuplicateCheck(o)
    \/ \E ok \in BOOLEAN : ScrapeExtract(ok, pageUrl, <<"zh">>)
    \/ \E ok \in BOOLEAN : ScrapeTranslate(ok)
    \/ \E o \in DbOutcomes : SaveLookup(o)
    \/ \E o \in DbOutcomes : SaveCreate(o, "ok", "ok")
    \/ Count
    \/ BackNav(CATEGORY_URL, FALSE)
    \/ WaitNext
    \/ Catch
    \/ EndIteration(MaxVisits)

SpecVisit == Init /\ [][NextVisit]_vars

----------------------------------------------------------------------------
(* The session of extractions: every click opens the product page, the     *)
(* persistence collaborator answers, and the page may show no product name.*)

ExtractedNames == {<<>>, <<"zh">>}

NextExtract ==
    \/ LoopCheck
    \/ \E o \in ClickOrders(layoutMode) :
           Refill(o, FALSE, NoRestDraw(productIndex))
    \/ \E d \in MainProducts : Click(TRUE, d, FALSE)
    \/ Classify(FALSE)
    \/ ScrapeDuplicateCheck("answer")
    \/ \E ok \in BOOLEAN, name \in ExtractedNames :
           ScrapeExtract(ok, pageUrl, name)
    \/ \E ok \in BOOLEAN : ScrapeTranslate(ok)
    \/ SaveLookup("answer")
    \/ \E g \in ImageOutcomes, d \in ImageOutcomes :
           SaveCreate("answer", g, d)
    \/ Count
    \/ BackNav(CATEGORY_URL, FALSE)
    \/ WaitNext
    \/ EndIteration(MaxVisits)

SpecExtract == Init /\ [][NextExtract]_vars

----------------------------------------------------------------------------
(* The cookie session: the start-up load and save with a pool of any size  *)
(* up to MaxPoolFiles, then block signals and rotations; clearing the      *)
(* context or installing the cookies can fail.                             *)

InitCookies ==
    /\ pc = "start_load"
    /\ isRunning = TRUE
    /\ hasPageError = FALSE
    /\ flagAtIterStart = FALSE
    /\ pageUrl = CATEGORY_URL
    /\ visitUrl = CATEGORY_URL
    /\ pData = "null"
    /\ visitLog = {}
    /\ db = <<>>
    /\ batchQueue = <<>>
    /\ quadrantIdx = 0
    /\ productIndex = 0
    /\ productsScrapedCount = 0
    /\ consecutiveFailures = 0
    /\ attempts = 0
    /\ rateLimitHits = 0
    /\ rateLimitBackoffMs = InitialBackoffMs
    /\ currentCookieFile = 0
    /\ browserCookies = {}
    /\ browserClosed = FALSE
    /\ layoutMode = "vertical-4"
    /\ accessBlocked = FALSE
    /\ basicData = <<>>
    /\ productImages = {}
    /\ restLog = <<>>
    /\ refills = [orders |-> 0, scrolls |-> 0]
    /\ pageErrorPending = FALSE
    /\ embeddingRequests = <<>>
    /\ TransIdle
    /\ PriceIdle
    /\ AiIdle
    /\ ImagesIdle
    /\ OptionsIdle
    /\ GotoIdle
    /\ poolSize \in 0..MaxPoolFiles
    /\ cookieWrites = {}

NextCookies ==
    \/ \E c \in BOOLEAN, f \in RandomCookieFiles(poolSize), ok \in BOOLEAN :
           InitialLoad(c, f, ok)
    \/ \E ok \in BOOLEAN : InitialSave(ok)
    \/ LoopCheck
    \/ \E c \in BOOLEAN, f \in RandomCookieFiles(poolSize), ok \in BOOLEAN :
           RotateLoad(c, f, ok)
    \/ \E d \in ListingTargets, t \in BOOLEAN : RotateNav(d, t)
    \/ Catch
    \/ EndIteration(MaxIterations)
    \/ \E m \in BOOLEAN : OnPageError(m)
    \/ Sigint
    \/ Close

SpecCookies == InitCookies /\ [][NextCookies]_vars

----------------------------------------------------------------------------
(* The session with rest pauses: an undisturbed traversal long enough for  *)
(* the rest pause to come due, with any draw of the rest period; a click   *)
(* opens the product page or nothing, and a visit ends early (the product  *)
(* cannot be scraped).                                                     *)

NextRest ==
    \/ LoopCheck
    \/ \E o \in ClickOrders(layoutMode), n \in RestBand : Refill(o, FALSE, n)
    \/ \E l \in BOOLEAN, d \in MainProducts : Click(l, d, FALSE)
    \/ Classify(FALSE)
    \/ ScrapeDuplicateCheck("answer")
    \/ ScrapeExtract(FALSE, pageUrl, <<"zh">>)
    \/ Count
    \/ BackNav(CATEGORY_URL, FALSE)
    \/ WaitNext
    \/ EndIteration(MaxRestIterations)

SpecRest == Init /\ [][NextRest]_vars

----------------------------------------------------------------------------
(* The session of screens: either layout, more iterations than one screen  *)
(* has regions; a click opens the product page or nothing, any step of the *)
(* iteration can fail, a block can be signalled at any time, and a visit   *)
(* ends early.                                                             *)

InitScreens ==
    /\ InitLoop({"vertical-4", "grid-2x2"}, MaxCookieFiles)
    /\ TransIdle
    /\ PriceIdle
    /\ SideIdle

NextScreens ==
    \/ LoopCheck
    \/ \E f \in RandomCookieFiles(MaxCookieFiles) : RotateLoad(TRUE, f, TRUE)
    \/ \E t \in BOOLEAN : RotateNav(CATEGORY_URL, t)
    \/ \E o \in ClickOrders(layoutMode), t \in BOOLEAN :
           Refill(o, t, NoRestDraw(productIndex))
    \/ \E l \in BOOLEAN, d \in MainProducts, t \in BOOLEAN : Click(l, d, t)
    \/ Classify(FALSE)
    \/ ScrapeDuplicateCheck("answer")
    \/ ScrapeExtract(FALSE, pageUrl, <<"zh">>)
    \/ Count
    \/ BackNav(CATEGORY_URL, FALSE)
    \/ WaitNext
    \/ Catch
    \/ EndIteration(MaxScreenIterations)
    \/ OnPageError(TRUE)

SpecScreens == InitScreens /\ [][NextScreens]_vars

----------------------------------------------------------------------------
(* The gallery session: any src values handed to addImage in any order     *)

InitImages ==
    /\ InitLoop({"vertical-4"}, MaxCookieFiles)
    /\ TransIdle
    /\ PriceIdle
    /\ SideIdle

NextImages == \E src \in GallerySrcs : AddImage(src)

SpecImages == InitImages /\ [][NextImages]_vars

\* the navigation session: one call of safeGoto, any outcome of each
\* navigation, SIGINT at any time
NextGoto ==
    \/ GotoCall
    \/ \E outcome \in GotoOutcomes : GotoAttempt(outcome)
    \/ Sigint

SpecGoto == InitImages /\ [][NextGoto]_vars

\* the option session: any list items in any order
NextOptions == \E item \in OptionListItems : ReadOptionItem(item)

SpecOptions == InitImages /\ [][NextOptions]_vars

\* the four strategies in turn, each handing over any src values
NextStrategies ==
    \/ \E src \in GallerySrcs : AddImage(src)
    \/ StrategyDone

SpecStrategies == InitImages /\ [][NextStrategies]_vars

----------------------------------------------------------------------------
(* The translation calls: one call of batchTranslate or of translateText   *)
(* on a short list of short texts, the remote service answering anything.  *)

InputItems ==
    {<<>>, <<"sp">>, <<"ar">>, <<"zh">>, <<"zh", "zh", "ar">>}

BatchContexts == {"option", "review"}

SingleContexts == {"product_name", "option", "review"}

SeqsOf(S, lo, hi) == UNION {[1..n -> S] : n \in lo..hi}

JsonValues == {<<"ar">>, <<"zh">>, <<"ar", "zh">>, <<>>, <<"sp">>, NotString}

RawLines == {<<"ar">>, <<"zh">>, <<"sp">>, <<"dg", "sp", "ar">>}

\* answers to a batch request of n items: between none and one too many
BatchReplies(n) ==
    {[kind |-> k, results |-> <<>>] : k \in {"throw", "json_other"}}
        \cup {[kind |-> "json", results |-> r] :
                  r \in SeqsOf(JsonValues, 0, n + 1)}
        \cup {[kind |-> "text", results |-> r] :
                  r \in SeqsOf(RawLines, 1, n + 1)}

SingleReplies ==
    {[kind |-> "throw", content |-> <<>>]}
        \cup {[kind |-> "content", content |-> c] :
                  c \in {<<"ar">>, <<"zh">>, <<"ar", "zh">>, <<>>,
                         <<"sp", "ar">>}}

InitTranslate ==
    /\ InitLoop({"vertical-4"}, MaxCookieFiles)
    /\ PriceIdle
    /\ SideIdle
    /\ tEntry \in {"batchTranslate", "translateText"}
    /\ IF tEntry = "batchTranslate"
       THEN /\ texts \in SeqsOf(InputItems, 0, MaxTexts)
            /\ context \in BatchContexts
            /\ tpc = "start"
            /\ tItem = 0
       ELSE /\ texts \in SeqsOf(InputItems, 1, 1)
            /\ context \in SingleContexts
            /\ tpc = "items"
            /\ tItem = 1
    /\ tTier = "target"
    /\ tAttempt = 0
    /\ tResult = <<>>
    /\ tPath = "none"
    /\ tRequests = {}
    /\ tUsed = <<>>
    /\ tAllFailed = TRUE
    /\ tReturned = {}

\* answers to a request of formatDescriptionToKV or generateAiMetadata: a
\* failed call, content JSON.parse rejects, or content it parses
JsonReplies ==
    {[kind |-> k, content |-> <<>>] : k \in {"throw", "text"}}
        \cup {[kind |-> "json", content |-> v] : v \in JsonValues}

\* a session of any of the four functions that call the remote service
InitRemote ==
    /\ InitLoop({"vertical-4"}, MaxCookieFiles)
    /\ PriceIdle
    /\ SideIdle
    /\ tEntry \in {"batchTranslate", "translateText",
                   "formatDescriptionToKV", "generateAiMetadata"}
    /\ IF tEntry = "batchTranslate"
       THEN /\ texts \in SeqsOf(InputItems, 0, MaxTexts)
            /\ context \in BatchContexts
            /\ tpc = "start"
            /\ tItem = 0
       ELSE IF tEntry = "translateText"
       THEN /\ texts \in SeqsOf(InputItems, 1, 1)
            /\ context \in SingleContexts
            /\ tpc = "items"
            /\ tItem = 1
       ELSE IF tEntry = "formatDescriptionToKV"
       THEN /\ texts \in SeqsOf(InputItems, 1, 1)
            /\ context = "description"
            /\ tpc = "format"
            /\ tItem = 0
       ELSE /\ texts \in SeqsOf(InputItems, 2, 2)
            /\ context = "metadata"
            /\ tpc = "generate"
            /\ tItem = 0
    /\ tTier = "target"
    /\ tAttempt = 0
    /\ tResult = <<>>
    /\ tPath = "none"
    /\ tRequests = {}
    /\ tUsed = <<>>
    /\ tAllFailed = TRUE
    /\ tReturned = {}

NextTranslate ==
    \/ BatchStart
    \/ \E reply \in BatchReplies(Len(ToTranslate(texts))) : TryBatch(reply)
    \/ ItemReturnsEarly
    \/ \E reply \in SingleReplies : TryTranslate(reply)

SpecTranslate == InitTranslate /\ [][NextTranslate]_vars

NextRemote ==
    \/ BatchStart
    \/ \E reply \in BatchReplies(Len(ToTranslate(texts))) : TryBatch(reply)
    \/ ItemReturnsEarly
    \/ \E reply \in SingleReplies : TryTranslate(reply)
    \/ FormatReturnsEarly
    \/ \E reply \in JsonReplies : TryFormat(reply)
    \/ \E reply \in JsonReplies : TryGenerate(reply)

SpecRemote == InitRemote /\ [][NextRemote]_vars

----------------------------------------------------------------------------
(* The pricing of one product: either a snapshot goes through              *)
(* scrapeProduct and saveProductToDb, or saveProductToDb is handed a       *)
(* general_price of any kind.                                              *)

OptionPrices == {0, 150, 3000}

RawPrices == {NotANumber} \cup {Num(n) : n \in -25..25}

InitPrice ==
    /\ InitLoop({"vertical-4"}, MaxCookieFiles)
    /\ TransIdle
    /\ SideIdle
    /\ price = 0
    /\ basePriceIQD = 0
    /\ \/ /\ ppc = "scrape"
          /\ mainPagePrice \in 0..MaxMainPagePrice
          /\ optionPrices \in SUBSET OptionPrices
          /\ general_price = Num(0)
       \/ /\ ppc = "save"
          /\ mainPagePrice = 0
          /\ optionPrices = {}
          /\ general_price \in RawPrices

NextPrice == PriceScrape \/ PriceSave

SpecPrice == InitPrice /\ [][NextPrice]_vars

----------------------------------------------------------------------------
(* The AI processing of one product whose name was extracted (it is not    *)
(* blank); the four tasks resolve in any order.                            *)

ProductNames == {t \in InputItems : ~IsBlank(t)}

InitAi ==
    /\ InitLoop({"vertical-4"}, MaxCookieFiles)
    /\ TransIdle
    /\ PriceIdle
    /\ CookiesIdle
    /\ ImagesIdle
    /\ OptionsIdle
    /\ GotoIdle
    /\ aiPc = "start"
    /\ product_name \in ProductNames
    /\ aiTasks = [t \in AiTaskNames |-> "none"]
    /\ aiSettled = <<>>
    /\ translatedName = <<>>
    /\ aiMetadataArg = <<>>

NextAi ==
    \/ AiStartTasks
    \/ \E t \in AiTaskNames :
           \E value \in NameResults(product_name, SingleReplies) :
               AiTaskSettles(t, value)
    \/ AiAwaitAll
    \/ AiGenerateMetadata

SpecAi == InitAi /\ [][NextAi]_vars

----------------------------------------------------------------------------
(* Properties of the traversal loop *)

RotationPcs == {"rotate_load", "rotate_nav"}

\* positions of an iteration that clicks the listing or visits a product
TraversalPcs ==
    {"stuck_back", "refill", "click", "classify", "scrape", "extract",
     "translate", "save_lookup", "save_create", "count", "backnav", "force",
     "wait_next"}

\* C1: an iteration that begins with the block flag set performs the
\* credential rotation and issues no listing click, no scrapeProduct and no
\* saveProductToDb; a click or a visit happens only in an iteration that began
\* with the flag clear.
C1_RotationBeforeExtraction ==
    /\ pc \in RotationPcs => flagAtIterStart
    /\ pc \in TraversalPcs => ~flagAtIterStart

\* a rotation iteration has run to its end: profile installed, flag reset, page
\* sent back to the listing root
C1_Witness ==
    /\ pc = "loop"
    /\ flagAtIterStart
    /\ ~hasPageError
    /\ pageUrl = CATEGORY_URL
    /\ browserCookies = {currentCookieFile}

BlockStatuses == {403, 424, 429}

\* C2: every block marker sets the block flag: a main-frame navigation to a
\* captcha/verification address, and every observed response with status 403,
\* 424 or 429, leaves hasPageError = TRUE.
C2_EveryBlockMarkerSetsFlag ==
    [][/\ (pageUrl' # pageUrl /\ IsBlockAddress(pageUrl')) => hasPageError'
       /\ (\E st \in BlockStatuses : OnResponse(st, MaxRateLimitHits))
             => hasPageError']_vars

\* C9: after a detail visit at most maxAttempts goBack are issued; CATEGORY_URL
\* is force-loaded exactly when the address is still a product/review page
\* after them, not when a goBack has already returned to the listing.
C9_ForceLoadOnlyWhenStillAway ==
    /\ attempts <= maxAttempts
    /\ pc = "force" => NeedsBack(pageUrl)
    /\ (pc = "wait_next" /\ attempts < maxAttempts) => ~NeedsBack(pageUrl)

\* C10: the loop ends on the product limit: the count never exceeds
\* PRODUCT_LIMIT, once it is reached the loop is left (no further click) with
\* isRunning cleared, and the browser is closed on the way out.
C10_StopsAtProductLimit ==
    /\ productsScrapedCount <= PRODUCT_LIMIT
    /\ productsScrapedCount >= PRODUCT_LIMIT =>
          (pc \in {"closing", "done"} /\ ~isRunning)
    /\ pc = "done" => browserClosed

C10_Witness ==
    productsScrapedCount = PRODUCT_LIMIT /\ pc = "done" /\ browserClosed

\* C11: cancellation is cooperative: once isRunning is cleared no new iteration
\* is started, the iteration in flight is not cut short (the loop is left only
\* at its boundaries, or by the break of the product limit), and
\* browser.close is called only after the loop was left.
C11_CooperativeCancellation ==
    [][/\ (~isRunning /\ pc = "loop") => pc' \in {"loop", "closing"}
       /\ (pc' = "closing" /\ pc # "closing") =>
              \/ pc \in {"loop", "tail"}
              \/ pc = "count" /\ LimitReached(productsScrapedCount')
       /\ (browserClosed' /\ ~browserClosed) => pc = "closing"]_vars

\* the interrupt has arrived, the product in flight is being persisted
C11_Witness ==
    /\ ~isRunning
    /\ ~browserClosed
    /\ pc = "save_create"
    /\ ~LimitReached(productsScrapedCount + 1)

----------------------------------------------------------------------------
(* Properties of the duplicate checks *)

\* C3: whatever the persistence lookups answer, at most one Product row is
\* created per goods_id.
C3_AtMostOneRecordPerGoodsId ==
    \A i, j \in 1..Len(db) :
        (db[i].goodsId # <<>> /\ db[i].goodsId = db[j].goodsId) => i = j

\* a Product row with the goods_id of the visited address is stored
StoredSameGoodsId ==
    /\ getGoodsIdFromUrl(visitUrl) # <<>>
    /\ \E i \in 1..Len(db) : db[i].goodsId = getGoodsIdFromUrl(visitUrl)

\* positions of a visit past the duplicate check of scrapeProduct
VisitWorkPcs == {"extract", "translate", "save_lookup", "save_create"}

\* C4: when a row with the visited goods_id is stored, the visit is skipped:
\* no extraction, no translation, no create call.
C4_StoredDuplicateAlwaysSkipped ==
    pc \in VisitWorkPcs => ~StoredSameGoodsId

\* C38: scrapeProduct returns the duplicate-skip result only when a stored
\* row has exactly the goods_id of the visited address.
C38_SkipOnlyOnExactGoodsId ==
    [][(pc = "scrape" /\ pc' = "count") => StoredSameGoodsId]_vars

\* C39: every Product row created has exactly one call of generateEmbedding,
\* in the order of creation, whatever happened to its image rows, and the
\* save has returned to the loop without an error.
C39_EveryCreatedRowEmbedded ==
    /\ embeddingRequests = db
    /\ "create" \in visitLog => pc # IterationCatch

\* C40: the catch block pauses (and resets the count) only on a sixth
\* failure in a row, and an iteration that reaches its end without passing
\* through the catch block leaves consecutiveFailures at 0.
C40_SuccessResetsFailureCount ==
    [][/\ (pc = IterationCatch /\ pc' # pc /\ consecutiveFailures' = 0) =>
              consecutiveFailures + 1 > MaxConsecutiveFailures
       /\ (pc \notin {IterationCatch, "tail"} /\ pc' = "tail") =>
              consecutiveFailures' = 0]_vars

\* C13: no failure inside an iteration ends the traversal loop: isRunning is
\* cleared only by the operator interrupt or by the product limit, and the
\* loop is left only with isRunning cleared.
C13_FailuresDoNotEndLoop ==
    [][/\ (isRunning /\ ~isRunning') =>
              \/ Sigint
              \/ pc = "count" /\ LimitReached(productsScrapedCount')
       /\ (pc' = "closing" /\ pc # "closing") => ~isRunning']_vars

\* a failure was caught and a later iteration is clicking the listing
C13_Witness ==
    /\ consecutiveFailures > 0
    /\ isRunning
    /\ pc = "click"

\* first positions of an iteration, after the while condition has passed
IterationStartPcs == {"rotate_load", "stuck_back", "refill"}

\* C12: once a persistence call (duplicate lookup of scrapeProduct, lookup or
\* create of saveProductToDb) has failed with the allow_list restriction, the
\* traversal loop starts no further iteration.
C12_AccessBlockEndsSession ==
    accessBlocked => pc \notin IterationStartPcs

----------------------------------------------------------------------------
(* Properties of the translation calls *)

BatchDone == tEntry = "batchTranslate" /\ tpc = "done"

\* C5: batchTranslate resolves to a list with exactly texts.length entries, on
\* every path and whatever the remote service returns.
C5_OutputLengthEqualsInputLength ==
    BatchDone => Len(tResult) = Len(texts)

\* the primary model answered one item more than it was sent, and its list
\* was used
C5_Witness ==
    /\ BatchDone
    /\ tPath = "target"
    /\ tUsed # <<>>
    /\ tUsed[1].count > Len(ToTranslate(texts))

\* C6: when every remote call has failed on both models, batchTranslate and
\* translateText resolve without throwing, and every item that was not
\* skipped is returned as its original text.
C6_AllCallsFailedKeepsSourceText ==
    /\ tpc # "thrown"
    /\ (tpc = "done" /\ tAllFailed) =>
          /\ Len(tResult) = Len(texts)
          /\ \A i \in 1..Len(texts) : ~Skip(texts[i]) => tResult[i] = texts[i]

\* batchTranslate went through both batch tiers and the per-item fallback
\* with every call failing, for a list holding an item that is not skipped
C6_Witness ==
    /\ BatchDone
    /\ tAllFailed
    /\ tPath = "items"
    /\ \E i \in 1..Len(texts) : ~Skip(texts[i])
    /\ \E r \in tRequests : r.tier = "backup" /\ r.payload = ToTranslate(texts)
    /\ \E r \in tRequests : r.tier = "backup" /\ r.payload # ToTranslate(texts)

\* C7: a batch response whose item count differs from the number of items
\* sent is a failed attempt: batchTranslate never resolves from it.
C7_MismatchedBatchRejected ==
    (BatchDone /\ tPath \in {"target", "backup"}) =>
        tUsed[1].count = Len(ToTranslate(texts))

\* C8: an item that already satisfies the Arabic heuristic is returned
\* unchanged at its index on every path, and is never part of a request.
C8_ArabicItemsPassThrough ==
    /\ BatchDone =>
          \A i \in 1..Len(texts) :
              (i <= Len(tResult) /\ AlreadyArabic(texts[i]))
                  => tResult[i] = texts[i]
    /\ tEntry = "batchTranslate" =>
          \A r \in tRequests :
              \A k \in 1..Len(r.payload) : ~AlreadyArabic(r.payload[k])

\* the per-item fallback has resolved a list that mixes an Arabic item with
\* an item that was sent
C8_Witness ==
    /\ BatchDone
    /\ tPath = "items"
    /\ \E i \in 1..Len(texts) : AlreadyArabic(texts[i]) /\ tResult[i] = texts[i]
    /\ \E i \in 1..Len(texts) : ~Skip(texts[i])

\* the batch requests sent to a tier
BatchRequestsTo(tier) ==
    {r \in tRequests : r.call = "tryBatch" /\ r.tier = tier}

\* C17: the requests of one batch follow the tier order: at most
\* Attempts(context) attempts per model, the fallback model only after the
\* primary one, per-item calls only after the fallback model, and no request
\* to a later tier once an earlier tier has returned an accepted result.
C17_RequestsFollowTierOrder ==
    tEntry = "batchTranslate" =>
        /\ tAttempt < Attempts(context)
        /\ BatchRequestsTo("backup") # {} => BatchRequestsTo("target") # {}
        /\ tpc = "items" => BatchRequestsTo("backup") # {}
        /\ (tpc = "batch" /\ tTier = "backup") => "target" \notin tReturned
        /\ tpc = "items" => tReturned = {}

\* C18: a batch response that is not well-formed JSON is a failed attempt:
\* tryBatch does not return it, its lines are not used as the output, and
\* the call goes on to the next retry or tier.
C18_UnparseableResponseIsFailedAttempt ==
    [][\A reply \in BatchReplies(Len(ToTranslate(texts))) :
           (reply.kind = "text" /\ TryBatch(reply)) =>
               /\ tReturned' = tReturned
               /\ tUsed' = tUsed
               /\ tpc' # "done"]_vars

\* C19: once batchTranslate has sent its request or returned, an item has
\* been sent to the remote service if and only if it is non-blank and the
\* majority of its characters are not Arabic.
C19_SentIffNotMajorityArabic ==
    LET ArabicCount(text) ==
            Cardinality({i \in 1..Len(text) : text[i] = "ar"})
        MajorityArabic(text) == 2 * ArabicCount(text) > Len(text)
        Sent(text) ==
            \E r \in tRequests : \E j \in 1..Len(r.payload) :
                r.payload[j] = text
    IN  (tEntry = "batchTranslate" /\ (tpc = "done" \/ tRequests # {})) =>
            \A i \in 1..Len(texts) :
                Sent(texts[i]) <=>
                    (~IsBlank(texts[i]) /\ ~MajorityArabic(texts[i]))

\* C20: every request sent to the remote completion service, by translateText,
\* batchTranslate, formatDescriptionToKV or generateAiMetadata, is raced
\* against a manual timer that is shorter than the client's timeout.
C20_EveryRemoteCallRacesManualTimer ==
    \A r \in tRequests :
        /\ r.call \in {"tryTranslate", "tryBatch", "tryFormat", "tryGenerate"}
        /\ r.timer # <<>>
        /\ r.timer[1] < ClientTimeoutMs

\* C37: in the option context every item of the result of batchTranslate
\* or translateText has no Chinese character or is the input item itself.
C37_NoResidualChineseInOptions ==
    (tpc = "done" /\ context = "option") =>
        /\ Len(tResult) = Len(texts)
        /\ \A i \in 1..Len(tResult) :
               ~HasChinese(tResult[i]) \/ tResult[i] = texts[i]

\* the remote service answered, nothing it sent was accepted for the first
\* item, a Chinese text, and the second item was translated
C37_Witness ==
    /\ tpc = "done"
    /\ context = "option"
    /\ tEntry = "batchTranslate"
    /\ ~tAllFailed
    /\ texts = <<<<"zh">>, <<"zh">>>>
    /\ tResult = <<<<"zh">>, <<"ar">>>>

----------------------------------------------------------------------------
(* Properties of the prices *)

PriceDone == ppc = "done"

\* C14: for every base price > 0 calculateFinalPrice returns a positive
\* multiple of 10 that is at least the base price.
C14_FinalPricePositiveMultipleOfTen ==
    (PriceDone /\ general_price.numeric /\ general_price.value > 0) =>
        /\ price > 0
        /\ price % 10 = 0
        /\ price >= general_price.value

\* a base price that is not a multiple of 10 has been priced
C14_Witness ==
    /\ PriceDone
    /\ general_price.numeric
    /\ general_price.value > 0
    /\ general_price.value % 10 # 0
    /\ price > general_price.value

\* C15: for a base price <= 0, missing or not numeric, calculateFinalPrice
\* returns 0.
C15_NonPositiveBaseGivesZero ==
    (PriceDone /\ (~general_price.numeric \/ general_price.value <= 0)) =>
        price = 0

\* a negative base price below the denomination has been priced
C15_Witness ==
    /\ PriceDone
    /\ general_price.numeric
    /\ general_price.value < -10
    /\ price = 0

\* C16: for a snapshot with main-page price p > 0 the persisted base price is
\* p x 200 and the persisted price is the smallest multiple of 10 that is
\* >= 1.15 x (p x 200), whatever the option prices.
C16_MainPagePriceDeterminesPersistedPrices ==
    (PriceDone /\ mainPagePrice > 0) =>
        /\ basePriceIQD * 100 = mainPagePrice * 200
        /\ price % 10 = 0
        /\ price * 100 >= 115 * basePriceIQD
        /\ (price - 10) * 100 < 115 * basePriceIQD

\* p = 10 has given base 2000 and final 2300, with lower option prices around
C16_Witness ==
    /\ PriceDone
    /\ mainPagePrice = 1000
    /\ 150 \in optionPrices
    /\ basePriceIQD = 2000
    /\ price = 2300

----------------------------------------------------------------------------
(* Properties of the extraction *)

\* C22: a product whose name is still empty after the name fallbacks is
\* abandoned: scrapeProduct gives no result, and neither a translation
\* request nor a product create call is issued for it.
C22_EmptyNameAbandonsProduct ==
    (basicData # <<>> /\ basicData[1].product_name = <<>>) =>
        /\ pc \notin {"translate", "save_lookup", "save_create"}
        /\ "translate" \notin visitLog
        /\ "create" \notin visitLog

\* C23: when the create call has succeeded and an image step has failed,
\* the product row is still there and saveProductToDb has returned
\* without throwing.
C23_ImageFailureKeepsProduct ==
    "image_error" \in visitLog =>
        /\ FindFirstByUrl(db, visitUrl)
        /\ pc # "catch"

\* the product was created, both image steps failed, and the loop went on
C23_Witness ==
    /\ "image_error" \in visitLog
    /\ pc = "backnav"
    /\ ~\E r \in productImages : r.purchaseUrl = visitUrl
    /\ FindFirstByUrl(db, visitUrl)

----------------------------------------------------------------------------
(* Properties of the rate-limit backoff *)

\* C27: after k observed 429 responses rateLimitHits = k and
\* rateLimitBackoffMs = min(60000 * 2^k, 300000); the duration never
\* decreases, and a step changes neither value unless it counts one more
\* 429 response.
C27_BackoffDoublesUpToCap ==
    [][/\ rateLimitHits' \in {rateLimitHits, rateLimitHits + 1}
       /\ rateLimitBackoffMs' =
              Min(InitialBackoffMs * 2^rateLimitHits', MaxBackoffMs)
       /\ rateLimitBackoffMs' >= rateLimitBackoffMs
       /\ rateLimitBackoffMs' <= MaxBackoffMs
       /\ (rateLimitHits' = rateLimitHits) =>
              rateLimitBackoffMs' = rateLimitBackoffMs]_vars

\* three 429 responses have been observed and the cap has cut the doubling
C27_Witness ==
    /\ rateLimitHits >= 3
    /\ rateLimitBackoffMs = MaxBackoffMs
    /\ InitialBackoffMs * 2^rateLimitHits > MaxBackoffMs

----------------------------------------------------------------------------
(* Properties of the click order *)

\* C29: the regions are taken from a click order that is a permutation of
\* 0..3 (0,1,2,3 itself in vertical mode); a new order is generated only
\* when the previous one is exhausted, and every order after the first one
\* follows a one-screen scroll; so the region clicked is in 0..3 and is not
\* clicked again before the next order.
C29_ClickOrderIsPermutation ==
    [][/\ (batchQueue' # batchQueue \/ refills' # refills) =>
              LET taken == <<quadrantIdx'>> \o batchQueue'
              IN  \/ /\ batchQueue # <<>>
                     /\ taken = batchQueue
                     /\ refills' = refills
                  \/ /\ batchQueue = <<>>
                     /\ Len(taken) = 4
                     /\ {taken[i] : i \in 1..4} = 0..3
                     /\ layoutMode = "vertical-4" => taken = <<0, 1, 2, 3>>
                     /\ refills'.orders = refills.orders + 1
                     /\ refills.orders > 0 =>
                            refills'.scrolls = refills.scrolls + 1
       /\ (pc' = "click" /\ pc # "click") =>
              /\ quadrantIdx' \in 0..3
              /\ \A i \in 1..Len(batchQueue') : batchQueue'[i] # quadrantIdx'
              /\ \A i \in 1..Len(batchQueue') :
                     \A j \in 1..Len(batchQueue') :
                         batchQueue'[i] = batchQueue'[j] => i = j]_vars

\* in grid mode a second, shuffled order has been started after a scroll
C29_Witness ==
    /\ layoutMode = "grid-2x2"
    /\ refills = [orders |-> 2, scrolls |-> 1]
    /\ pc = "click"
    /\ <<quadrantIdx>> \o batchQueue # <<0, 1, 2, 3>>

----------------------------------------------------------------------------
(* Properties of the gallery images *)

\* C30: whatever src values the gallery hands over, main_images holds the
\* path of every http src outside the denylist exactly once however many
\* query strings it came with, in the order the paths were first seen, and
\* no entry carries a query string or one of the patterns avatar, icon,
\* coupon, video-snapshot.
C30_DistinctPathsInFirstSeenOrder ==
    LET first(path) ==
            CHOOSE i \in 1..Len(addImageLog) :
                /\ CleanSrc(addImageLog[i]) = path
                /\ \A j \in 1..Len(addImageLog) :
                       CleanSrc(addImageLog[j]) = path => i <= j
        wanted == {CleanSrc(addImageLog[i]) : i \in
                      {k \in 1..Len(addImageLog) :
                          /\ StartsWithHttp(addImageLog[k])
                          /\ \A n \in 1..Len(addImageLog[k]) :
                                 (\A m \in 1..n : addImageLog[k][m] # "?") =>
                                     addImageLog[k][n] \notin
                                         {"avatar", "icon", "coupon",
                                          "video-snapshot"}}}
    IN  /\ {main_images[i] : i \in 1..Len(main_images)} = wanted
        /\ \A i \in 1..Len(main_images) : \A j \in 1..Len(main_images) :
               /\ main_images[i] = main_images[j] => i = j
               /\ i < j => first(main_images[i]) < first(main_images[j])
        /\ \A i \in 1..Len(main_images) : \A n \in 1..Len(main_images[i]) :
               main_images[i][n] \notin
                   {"?", "avatar", "icon", "coupon", "video-snapshot"}

\* two srcs of one path with different query strings around another path
C30_Witness ==
    /\ addImageLog = <<<<"http", "p2">>, <<"http", "p1", "?", "q1">>,
                   <<"http", "p2", "?", "q1">>>>
    /\ main_images = <<<<"http", "p2">>, <<"http", "p1">>>>

\* C31: the images of main_images all come from one strategy: once a
\* strategy has appended an image, no later strategy appends one.
C31_OneStrategyContributes == Cardinality(imageStrategies) <= 1

----------------------------------------------------------------------------
(* Properties of the variant options *)

\* C32 as stated: every item whose label cleans to the single character
\* "bai" gives an option of its own, and no option has a label of one
\* character that is not Chinese.
C32_EveryWhiteItemRetained ==
    /\ Cardinality({k \in 1..Len(generated_options) :
                       generated_options[k].color = <<"bai">>})
           = Cardinality({i \in 1..Len(optionItems) :
                             CleanLabel(optionItems[i].text) = <<"bai">>})
    /\ \A k \in 1..Len(generated_options) :
           generated_options[k].color # <<"a">>

\* C32 amended: a label that cleans to a single Chinese character passes
\* the filter and is retained once, however many items clean to it, and
\* no option has a label of fewer than two characters other than a single
\* Chinese character.
C32_SingleChineseLabelRetainedOnce ==
    /\ \A c \in ChineseChars :
           Cardinality({k \in 1..Len(generated_options) :
                           generated_options[k].color = <<c>>})
               = IF \E i \in 1..Len(optionItems) :
                        CleanLabel(optionItems[i].text) = <<c>>
                 THEN 1 ELSE 0
    /\ \A k \in 1..Len(generated_options) :
           \/ Len(generated_options[k].color) >= 2
           \/ /\ Len(generated_options[k].color) = 1
              /\ generated_options[k].color[1] \in ChineseChars

\* two items that clean to "bai" and an item "a" have been read
C32_Witness ==
    /\ Len(optionItems) = 3
    /\ optionItems[1].text = <<"bai">>
    /\ optionItems[2].text = <<"a">>
    /\ optionItems[3].text = <<"bai", "sp", "1">>
    /\ Len(generated_options) = 1
    /\ generated_options[1].color = <<"bai">>

\* C33: the list handed to batchTranslate holds no cleaned label twice, and
\* the option kept for a label is the one of the first item that cleans to
\* it.
C33_OptionsUniqueByCleanedLabel ==
    /\ \A i \in DOMAIN OptionNames : \A j \in DOMAIN OptionNames :
           OptionNames[i] = OptionNames[j] => i = j
    /\ \A k \in 1..Len(generated_options) :
           \E i \in 1..Len(optionItems) :
               /\ CleanLabel(optionItems[i].text) = generated_options[k].color
               /\ optionItems[i].thumbnail = generated_options[k].thumbnail
               /\ \A j \in 1..(i - 1) :
                      CleanLabel(optionItems[j].text)
                          # generated_options[k].color

\* a later item with another thumbnail cleans to a label already kept
C33_Witness ==
    /\ Len(optionItems) = 3
    /\ optionItems[1] = [text |-> <<"bai", "quanhou", "1">>, thumbnail |-> "t1"]
    /\ optionItems[2].text = <<"hei", "sp", "sp", "bai">>
    /\ optionItems[3] = [text |-> <<"bai", "-", "1">>, thumbnail |-> "t2"]
    /\ OptionNames = <<<<"bai">>, <<"hei", "sp", "bai">>>>
    /\ generated_options[1].thumbnail = "t1"

----------------------------------------------------------------------------
(* Properties of safeGoto *)

\* C34: safeGoto returns a response only when it has status 200, a
\* navigation that throws or answers another status being retried; the
\* delay made at each place grows from one navigation to the next and a
\* delay lies between any two navigations; there are at most Retries + 1
\* navigations, and an error is thrown only after that many; null is
\* returned without navigating when isRunning is false.
C34_TransientFailuresRetried ==
    LET gotos == {n \in 1..Len(gotoLog) : "goto" \in DOMAIN gotoLog[n]}
        delays == {n \in 1..Len(gotoLog) : "delay" \in DOMAIN gotoLog[n]}
    IN  /\ Cardinality(gotos) <= Retries + 1
        /\ \A n \in delays : \A m \in delays :
               (n < m /\ gotoLog[n].at = gotoLog[m].at) =>
                   gotoLog[n].delay < gotoLog[m].delay
        /\ \A g \in gotos : \A h \in gotos :
               g < h => \E n \in delays : g < n /\ n < h
        /\ gotoPc = "thrown" => Cardinality(gotos) = Retries + 1
        /\ (gotoPc = "returned" /\ gotoResult[1].kind = "response") =>
               gotoResult[1].status = 200
        /\ (gotoPc = "returned" /\ gotoResult[1].kind = "null"
                /\ isRunning) =>
               gotoLog[Len(gotoLog)] = [goto |-> NullResponse]

----------------------------------------------------------------------------
(* Properties of the check for a product address at the top of the loop *)

----------------------------------------------------------------------------
(* Properties of the block flag *)

\* C36: once the pageerror handler has set hasPageError, the flag stays
\* set until a loop-top check has read it and started a rotation.
C36_BlockSignalNeverLost == pageErrorPending => hasPageError

----------------------------------------------------------------------------
(* Properties of the rest pause *)

\* C28: no rest pause is taken before 15 detail visits have been made, and
\* at least 15 detail visits are processed between two successive rest
\* pauses.
C28_RestOncePerFifteenVisits ==
    \A i \in 1..Len(restLog) :
        /\ restLog[i] >= 15
        /\ i > 1 => restLog[i] - restLog[i - 1] >= 15

----------------------------------------------------------------------------
(* Properties of the credential rotation *)

\* C24: whenever loadCookies returns, the browser holds no cookie of the
\* profile that was active before the call (unless that profile was
\* selected again).
C24_NoCookieOfPreviousProfile ==
    [][(pc \in {"start_load", "rotate_load"} /\ pc' # pc) =>
           ((currentCookieFile # 0 /\ currentCookieFile' # currentCookieFile)
                => currentCookieFile \notin browserCookies')]_vars

\* C25: saveCookies writes only to the file the most recent loadCookies
\* selected, and writes nothing when no file was selected.
C25_SaveWritesOnlyCurrentFile ==
    [][/\ cookieWrites' \ cookieWrites \subseteq {currentCookieFile} \ {0}
       /\ (cookieWrites' # cookieWrites) => pc = "start_save"]_vars

\* saveCookies wrote the second file of a pool of two, and did nothing
\* else in the session
C25_Witness ==
    /\ poolSize > 1
    /\ cookieWrites = {2}
    /\ pc = "rotate_nav"

\* C26: with more than one profile in the pool, the profile rotateCookies
\* installs differs from the profile that was active when the block was
\* detected.
C26_RotationLoadsAnotherProfile ==
    [][(pc = "rotate_load" /\ pc' # pc /\ poolSize > 1) =>
           currentCookieFile' # currentCookieFile]_vars

----------------------------------------------------------------------------
(* Properties of the AI processing *)

\* C21: the metadata request is issued only after the four tasks (name,
\* description, options, reviews) have all settled, whatever the order of
\* their completions, and its first argument is the translated name.
C21_MetadataAfterAllTasks ==
    aiMetadataArg # <<>> =>
        /\ \A t \in AiTaskNames : aiTasks[t] \in {"resolved", "rejected"}
        /\ {aiSettled[i] : i \in 1..Len(aiSettled)} = AiTaskNames
        /\ translatedName # <<>>
        /\ aiMetadataArg[1] = translatedName

\* the metadata request was issued after nameTask settled last
C21_Witness ==
    /\ aiPc = "done"
    /\ aiMetadataArg = <<translatedName>>
    /\ translatedName # <<>>
    /\ translatedName[1] # product_name
    /\ aiSettled[Len(aiSettled)] = "nameTask"

====
